---- MODULE Spec2Model ----
(***************************************************************************)
(* Verification model of the AIDev agent loop (packages/core/src/agent).   *)
(*                                                                         *)
(* runAgentLoop is an async generator.  Its local variables are the state  *)
(* below; `pc` is the position of the generator's body; the provider and   *)
(* the host are the environment: the provider answers or rejects a         *)
(* request, the host resumes the generator after each yielded action.      *)
(*                                                                         *)
(* The analysis tools (packages/core/src/tools) are a second machine with  *)
(* its own variables and specification, SpecTools: execute wraps a tool's  *)
(* run, whose phases succeed or throw, and records the ScanResult.         *)
(***************************************************************************)
EXTENDS Integers, Sequences, FiniteSets, TLC

VARIABLES
  config,             \* AgentConfig of the run
  history,            \* the caller's history list (ChatMessage[])
  pc,                 \* position of the generator body
  messages,           \* const messages: ChatMessage[]
  totalInputTokens,   \* let totalInputTokens
  totalOutputTokens,  \* let totalOutputTokens
  turnsRemaining,     \* let turnsRemaining
  response,           \* let response: ModelResponse (of the current turn)
  callIdx,            \* position of the for..of over response.toolCalls
  yielded,            \* the AgentAction values the generator has yielded
  requestCount,       \* number of provider.sendRequest calls issued
  lastRequest,        \* ModelRequestOptions of the latest sendRequest
  providerLog,        \* outcome of each sendRequest, in order
  hostLog,            \* what the host passed at each resume of a tool action
  aborted,            \* the host has raised its abort signal
  escaped,            \* an exception has propagated out of the generator
  tool,               \* the analysis tool whose execute is observed
  options,            \* its ScanOptions and injected dependencies
  scan,               \* the ScanResult execute builds: status, findings, error
  run,                \* position and locals of the tool's run(options)
  repo,               \* the git working copy: branch, uncommitted changes, stashes
  opLog,              \* the external operations run attempted, with their outcome
  reads,               \* reads of the ScanResult after it was returned
  review,             \* LintTool.runModelAnalysis reading a model response
  conflicts,          \* parseConflictMarkers at work on a file
  cleanup,            \* one call of the hygiene.cleanup handler
  analyzer,           \* a HygieneAnalyzer, its cache and its clock
  manager             \* a ProviderManager, the settings and its refreshes

agentVars == <<config, history, pc, messages, totalInputTokens, totalOutputTokens,
               turnsRemaining, response, callIdx, yielded, requestCount,
               lastRequest, providerLog, hostLog, aborted, escaped>>
toolVars == <<tool, options, scan, run, repo, opLog, reads>>
utilVars == <<review, conflicts, cleanup, analyzer, manager>>
vars == <<agentVars, toolVars, utilVars>>

(***************************************************************************)
(* Bounds of the model.                                                    *)
(***************************************************************************)
MaxTurns == 2        \* config.maxTurns ranges over 1..MaxTurns
MaxCalls == 2        \* tool calls carried by one model response
MaxTotalCalls == 2   \* tool calls the provider requests over one run

(***************************************************************************)
(* Values.                                                                 *)
(***************************************************************************)
\* An optional value: None is JavaScript undefined, Some(x) a value that is present
None == << >>
Some(x) == << x >>
IsSome(o) == Len(o) = 1
Get(o) == o[1]
MIN_TOKEN_BUDGET_THRESHOLD == 100

RECURSIVE Join(_, _)
\* Array.prototype.join
Join(strs, sep) ==
  IF Len(strs) = 0 THEN ""
  ELSE IF Len(strs) = 1 THEN strs[1]
  ELSE strs[1] \o sep \o Join(Tail(strs), sep)

\* String.prototype.includes
Contains(s, sub) ==
  \E i \in 1..(Len(s) - Len(sub) + 1) : SubSeq(s, i, i + Len(sub) - 1) = sub

\* String.prototype.startsWith
StartsWith(s, prefix) ==
  Len(prefix) <= Len(s) /\ SubSeq(s, 1, Len(prefix)) = prefix

\* String(n) for the non-negative integers of the model
RECURSIVE NatToString(_)
NatToString(n) ==
  IF n < 10 THEN SubSeq("0123456789", n + 1, n + 1)
  ELSE NatToString(n \div 10) \o SubSeq("0123456789", (n % 10) + 1, (n % 10) + 1)

(***************************************************************************)
(* Tool registry (tools/index.ts): a fixed table, one entry per ToolId.    *)
(***************************************************************************)
TOOL_REGISTRY ==
  << [id |-> "dead-code", name |-> "Dead Code", description |-> "Find unused code",
      invocation |-> "autonomous", chatCommand |-> "deadcode"],
     [id |-> "lint", name |-> "Lint", description |-> "Run linters",
      invocation |-> "autonomous", chatCommand |-> "lint"],
     [id |-> "comments", name |-> "Comments", description |-> "Prune comments",
      invocation |-> "restricted", chatCommand |-> "comments"],
     [id |-> "commit", name |-> "Commit", description |-> "Create a commit",
      invocation |-> "restricted", chatCommand |-> "commit"],
     [id |-> "tldr", name |-> "TLDR", description |-> "Summarize changes",
      invocation |-> "autonomous", chatCommand |-> "tldr"] >>

\* getToolByCommand(name): the entry routed by that name, or undefined
getToolByCommand(name) ==
  IF \E i \in 1..Len(TOOL_REGISTRY) : TOOL_REGISTRY[i].chatCommand = name
  THEN Some(TOOL_REGISTRY[CHOOSE i \in 1..Len(TOOL_REGISTRY) :
                             TOOL_REGISTRY[i].chatCommand = name])
  ELSE None

(***************************************************************************)
(* Inputs of a run.                                                        *)
(***************************************************************************)
ToolDefinitions ==
  << [name |-> "lint", description |-> "Run linters"],
     [name |-> "commit", description |-> "Create a commit"] >>

\* AgentConfig values: maxTurns > 0, maxTokenBudget > 0
Budgets == {100, 150, 400}
Configs ==
  { [maxTurns |-> n, maxTokenBudget |-> b, systemPrompt |-> p.prompt,
     availableTools |-> p.tools] :
      n \in 1..MaxTurns, b \in Budgets,
      p \in { [prompt |-> "", tools |-> ToolDefinitions],
              [prompt |-> "Be terse.", tools |-> << >>] } }

\* an earlier exchange with a tool call, as a caller replays it
EarlierExchange ==
  << [role |-> "user", content |-> "earlier question"],
     [role |-> "assistant", content |-> "",
      toolCalls |-> << [id |-> "h1", name |-> "lint", arguments |-> "{\"p\":1}"] >>],
     [role |-> "tool_result", content |-> "ok", toolCallId |-> "h1"],
     [role |-> "assistant", content |-> "earlier answer"] >>

\* the history a caller passes with a config: none on a first run with the
\* built-in prompt, the earlier exchange otherwise
HistoryFor(cfg) == IF cfg.systemPrompt = "" THEN << >> ELSE EarlierExchange

UserMessage == "please check the repo"

\* tool_calls as the model API sends them, function.arguments being JSON text:
\* an autonomous tool under two ids and argument values, a confirmation-gated
\* tool whose argument text is cut short, an unregistered name
WireToolCalls ==
  { [id |-> "c1", function |-> [name |-> "lint", arguments |-> "{\"p\":1}"]],
    [id |-> "c2", function |-> [name |-> "lint", arguments |-> "{\"p\":2}"]],
    [id |-> "c1", function |-> [name |-> "commit", arguments |-> "{\"p\":"]],
    [id |-> "c2", function |-> [name |-> "frobnicate", arguments |-> "{\"p\":1}"]] }

\* JSON.parse succeeds on an object text; on the texts above that is: the text
\* opens and closes its brace.  A parsed object is written as its JSON text.
IsObjectText(text) ==
  /\ Len(text) >= 2
  /\ SubSeq(text, 1, 1) = "{"
  /\ SubSeq(text, Len(text), Len(text)) = "}"
EmptyArgs == "{}"

\* the arguments handed on unparsed when JSON.parse throws
ParsedArguments_KeepsText(text) == text

\* let args = {}; try { args = JSON.parse(tc.function.arguments) } catch { }
ParsedArguments(text) == IF IsObjectText(text) THEN text ELSE EmptyArgs

\* the ToolCall sendOpenAI makes of one wire tool call
ToolCallOf(tc) ==
  [id |-> tc.id, name |-> tc.function.name,
   arguments |-> ParsedArguments(tc.function.arguments)]

\* ToolCall values the provider may put in a response
ToolCallPool == { ToolCallOf(tc) : tc \in WireToolCalls }
CallIds == { c.id : c \in ToolCallPool }

SeqsUpTo(S, n) == UNION { [1..k -> S] : k \in 1..n }

\* usage reported by a response: absent, or token counts; one response may use
\* more than the margin of the budget check
Usages == { None, Some([inputTokens |-> 120, outputTokens |-> 60]) }

\* ToolResult values the host may pass when it resumes (or nothing)
HostResults ==
  { [toolCallId |-> i, content |-> "ok", isError |-> e] : i \in CallIds, e \in BOOLEAN }
HostResumeValues == { Some(r) : r \in HostResults } \cup { None }

(***************************************************************************)
(* buildSystemPrompt (agent/system-prompt.ts).                             *)
(***************************************************************************)
BASE_SYSTEM_PROMPT == "You are AIDev, an AI-powered developer toolkit assistant.\n"

RECURSIVE ToolLines(_)
ToolLines(tools) ==
  IF Len(tools) = 0 THEN << >>
  ELSE << "- " \o tools[1].name \o ": " \o tools[1].description >>
         \o ToolLines(Tail(tools))

buildSystemPrompt(cfg) ==
  LET head == IF cfg.systemPrompt # "" THEN << cfg.systemPrompt, "" >>
              ELSE << BASE_SYSTEM_PROMPT >>
      tools == IF Len(cfg.availableTools) > 0
               THEN << "Available tools:" >> \o ToolLines(cfg.availableTools) \o << "" >>
               ELSE << >>
      tail == << "Constraints:",
                 "- All destructive actions (commits, comment pruning) must be proposed for user approval.",
                 "- Never auto-apply file modifications or git operations.",
                 "- Be concise and technical. Prioritize clarity." >>
  IN Join(head \o tools \o tail, "\n")

(***************************************************************************)
(* runAgentLoop (agent/loop.ts).                                           *)
(***************************************************************************)
\* the utilities are at rest, but for the one named
UtilitiesIdle(active) ==
  /\ active # "review" =>
       review = [pc |-> "idle", lines |-> << >>, idx |-> 0, findings |-> << >>,
                 thrown |-> FALSE]
  /\ active # "conflicts" =>
       conflicts = [pc |-> "idle", lines |-> << >>, i |-> 0, hunks |-> << >>]
  /\ active # "cleanup" =>
       cleanup = [pc |-> "idle", dryRun |-> None, files |-> None, idx |-> 0,
                  deleted |-> << >>, failed |-> << >>, result |-> None,
                  deleteCalls |-> << >>]
  /\ active # "analyzer" =>
       analyzer = [cache |-> {}, now |-> 0, walks |-> 0, calls |-> << >>]
  /\ active # "manager" =>
       manager = [pc |-> "idle", providers |-> << >>, activeProvider |-> None,
                  providerSource |-> "ide", available |-> {}, subscribed |-> FALSE,
                  disposed |-> FALSE, refreshes |-> << >>]

\* no tool is executing
ToolsIdle ==
  /\ tool = "lint"
  /\ options = [paths |-> 1, restoreOriginal |-> TRUE, preCommitDryRun |-> FALSE,
                hasModel |-> TRUE, signalAborted |-> FALSE]
  /\ scan = [status |-> "pending", findings |-> << >>, error |-> None]
  /\ run = [pc |-> "idle", findings |-> << >>, originalBranch |-> None,
            stashRef |-> None, fileIdx |-> 0, fileContents |-> {},
            dismissals |-> {}, thrown |-> None]
  /\ repo = [branch |-> "main", dirty |-> FALSE, stashes |-> 0]
  /\ opLog = << >>
  /\ reads = 0

Init ==
  /\ ToolsIdle
  /\ UtilitiesIdle("")
  /\ config \in Configs
  /\ history = HistoryFor(config)
  /\ pc = "start"
  /\ messages = << >>
  /\ totalInputTokens = 0
  /\ totalOutputTokens = 0
  /\ turnsRemaining = 0
  /\ response = [content |-> "", usage |-> None, toolCalls |-> None]
  /\ callIdx = 0
  /\ yielded = << >>
  /\ requestCount = 0
  /\ lastRequest = None
  /\ providerLog = << >>
  /\ hostLog = << >>
  /\ aborted = FALSE
  /\ escaped = FALSE

\* yield <action>: the value is handed to the host
Yield(action) == yielded' = Append(yielded, action)

\* the new user message placed before the replayed history
InitialMessages_UserFirst ==
  << [role |-> "system", content |-> buildSystemPrompt(config)] >>
    \o << [role |-> "user", content |-> UserMessage] >>
    \o history

\* the messages the body starts from: system prompt, replayed history, user message
InitialMessages ==
  << [role |-> "system", content |-> buildSystemPrompt(config)] >>
    \o history
    \o << [role |-> "user", content |-> UserMessage] >>

\* first next(): the body runs up to the head of the while loop
Start ==
  /\ pc = "start"
  /\ messages' = InitialMessages
  /\ totalInputTokens' = 0
  /\ totalOutputTokens' = 0
  /\ turnsRemaining' = config.maxTurns
  /\ pc' = "loopTop"
  /\ UNCHANGED <<config, history, response, callIdx, yielded, requestCount,
                 lastRequest, providerLog, hostLog, aborted, escaped, toolVars, utilVars>>

tokensUsed == totalInputTokens + totalOutputTokens

\* the budget check without the safety margin
BudgetExhausted_NoMargin == tokensUsed >= config.maxTokenBudget

\* the budget check at the head of an iteration
BudgetExhausted == tokensUsed >= config.maxTokenBudget - MIN_TOKEN_BUDGET_THRESHOLD

BudgetErrorAction ==
  [type |-> "error",
   message |-> "Token budget exhausted (" \o NatToString(tokensUsed) \o " / "
               \o NatToString(config.maxTokenBudget) \o " tokens used)."]

\* the budget error without its return: the body goes on to the request
YieldBudgetError_NoReturn ==
  /\ pc = "loopTop"
  /\ turnsRemaining > 0
  /\ BudgetExhausted
  /\ Yield(BudgetErrorAction)
  /\ pc' = "awaitProvider"
  /\ requestCount' = requestCount + 1
  /\ UNCHANGED <<config, history, messages, totalInputTokens, totalOutputTokens,
                 turnsRemaining, response, callIdx, lastRequest,
                 providerLog, hostLog, aborted, escaped, toolVars, utilVars>>

\* while (turnsRemaining > 0) { if (budget exhausted) { yield error; return; } }
YieldBudgetError ==
  /\ pc = "loopTop"
  /\ turnsRemaining > 0
  /\ BudgetExhausted
  /\ Yield(BudgetErrorAction)
  /\ pc' = "terminal"
  /\ UNCHANGED <<config, history, messages, totalInputTokens, totalOutputTokens,
                 turnsRemaining, response, callIdx, requestCount, lastRequest,
                 providerLog, hostLog, aborted, escaped, toolVars, utilVars>>

\* the options object passed to provider.sendRequest
RequestOptions ==
  [role |-> "chat",
   messages |-> messages,
   tools |-> IF Len(config.availableTools) > 0 THEN Some(config.availableTools)
             ELSE None]

\* response = await provider.sendRequest({...})
SendRequest ==
  /\ pc = "loopTop"
  /\ turnsRemaining > 0
  /\ ~BudgetExhausted
  /\ lastRequest' = Some(RequestOptions)
  /\ requestCount' = requestCount + 1
  /\ pc' = "awaitProvider"
  /\ UNCHANGED <<config, history, messages, totalInputTokens, totalOutputTokens,
                 turnsRemaining, response, callIdx, yielded, providerLog,
                 hostLog, aborted, escaped, toolVars, utilVars>>

TurnLimitErrorAction ==
  [type |-> "error",
   message |-> "Agent loop reached maximum turns (" \o NatToString(config.maxTurns)
               \o "). Stopping to prevent runaway execution."]

\* the while condition fails: the statement after the loop
YieldTurnLimitError ==
  /\ pc = "loopTop"
  /\ ~(turnsRemaining > 0)
  /\ Yield(TurnLimitErrorAction)
  /\ pc' = "terminal"
  /\ UNCHANGED <<config, history, messages, totalInputTokens, totalOutputTokens,
                 turnsRemaining, response, callIdx, requestCount, lastRequest,
                 providerLog, hostLog, aborted, escaped, toolVars, utilVars>>

\* what a provider may throw or reject with
ProviderErrors == {"network down"}

\* the await of sendRequest left outside the try block
SendRequestIsGuarded_Not == FALSE

\* the await of sendRequest sits inside try { } catch (err)
SendRequestIsGuarded == TRUE

RequestFailedAction(err) ==
  [type |-> "error", message |-> "Model request failed: " \o err]

\* a rejection that leaves an empty assistant message of the turn behind
ProviderRejects_CommitsPartial ==
  /\ pc = "awaitProvider"
  /\ \E err \in ProviderErrors :
       /\ Yield(RequestFailedAction(err))
       /\ pc' = "terminal"
  /\ messages' = Append(messages, [role |-> "assistant", content |-> ""])
  /\ providerLog' = Append(providerLog, [kind |-> "throw", usage |-> None, calls |-> 0, wire |-> << >>])
  /\ UNCHANGED <<config, history, totalInputTokens, totalOutputTokens,
                 turnsRemaining, response, callIdx, requestCount, lastRequest,
                 hostLog, aborted, escaped, toolVars, utilVars>>

\* provider.sendRequest throws or rejects
ProviderRejects ==
  /\ pc = "awaitProvider"
  /\ \E err \in ProviderErrors :
       IF SendRequestIsGuarded
       THEN /\ Yield(RequestFailedAction(err))
            /\ pc' = "terminal"
            /\ escaped' = escaped
       ELSE /\ yielded' = yielded
            /\ pc' = "done"
            /\ escaped' = TRUE
  /\ providerLog' = Append(providerLog, [kind |-> "throw", usage |-> None, calls |-> 0, wire |-> << >>])
  /\ UNCHANGED <<config, history, messages, totalInputTokens, totalOutputTokens,
                 turnsRemaining, response, callIdx, requestCount, lastRequest,
                 hostLog, aborted, toolVars, utilVars>>

\* the output total accrued from the input count
OutputAfter_AddsInput(resp) ==
  IF IsSome(resp.usage) THEN totalOutputTokens + Get(resp.usage).inputTokens
  ELSE totalOutputTokens

\* if (response.usage) { totals += usage }
InputAfter(resp) ==
  IF IsSome(resp.usage) THEN totalInputTokens + Get(resp.usage).inputTokens
  ELSE totalInputTokens
OutputAfter(resp) ==
  IF IsSome(resp.usage) THEN totalOutputTokens + Get(resp.usage).outputTokens
  ELSE totalOutputTokens

\* !response.toolCalls || response.toolCalls.length === 0
HasNoToolCalls(resp) ==
  IF ~IsSome(resp.toolCalls) THEN TRUE ELSE Len(Get(resp.toolCalls)) = 0

\* tool calls the provider has requested so far in this run
RECURSIVE CallsIn(_)
CallsIn(log) ==
  IF Len(log) = 0 THEN 0 ELSE log[1].calls + CallsIn(Tail(log))

\* ModelResponse values the provider may resolve with
FinalResponses ==
  { [content |-> "All good.", usage |-> u, toolCalls |-> t] :
      u \in Usages, t \in {None, Some(<< >>)} }
WireResponses(room) ==
  { [usage |-> u, tool_calls |-> t] :
      u \in Usages, t \in SeqsUpTo(WireToolCalls, IF room < MaxCalls THEN room ELSE MaxCalls) }
ToolResponseOf(wire) ==
  [content |-> "", usage |-> wire.usage,
   toolCalls |-> Some([i \in 1..Len(wire.tool_calls) |-> ToolCallOf(wire.tool_calls[i])])]
ToolResponses(room) == { ToolResponseOf(wire) : wire \in WireResponses(room) }

\* the provider resolves with a response that carries no tool calls
ReceiveFinalResponse ==
  /\ pc = "awaitProvider"
  /\ \E resp \in FinalResponses :
       /\ HasNoToolCalls(resp)
       /\ totalInputTokens' = InputAfter(resp)
       /\ totalOutputTokens' = OutputAfter(resp)
       /\ Yield([type |-> "response", content |-> resp.content,
                 usage |-> [totalInputTokens |-> InputAfter(resp),
                            totalOutputTokens |-> OutputAfter(resp)]])
       /\ providerLog' = Append(providerLog, [kind |-> "final", usage |-> resp.usage, calls |-> 0,
                                              wire |-> << >>])
  /\ pc' = "terminal"
  /\ UNCHANGED <<config, history, messages, turnsRemaining, response, callIdx,
                 requestCount, lastRequest, hostLog, aborted, escaped, toolVars, utilVars>>

\* the provider resolves with a response that carries tool calls
ReceiveToolCalls ==
  /\ pc = "awaitProvider"
  /\ \E wire \in WireResponses(MaxTotalCalls - CallsIn(providerLog)) :
     LET resp == ToolResponseOf(wire) IN
       /\ resp \in ToolResponses(MaxTotalCalls - CallsIn(providerLog))
       /\ ~HasNoToolCalls(resp)
       /\ totalInputTokens' = InputAfter(resp)
       /\ totalOutputTokens' = OutputAfter(resp)
       /\ messages' = Append(messages, [role |-> "assistant", content |-> resp.content,
                                        toolCalls |-> Get(resp.toolCalls)])
       /\ response' = resp
       /\ providerLog' = Append(providerLog, [kind |-> "tools", usage |-> resp.usage,
                                              calls |-> Len(Get(resp.toolCalls)),
                                              wire |-> wire.tool_calls])
  /\ callIdx' = 1
  /\ pc' = "forTools"
  /\ UNCHANGED <<config, history, turnsRemaining, yielded, requestCount,
                 lastRequest, hostLog, aborted, escaped, toolVars, utilVars>>

\* the tool call the for..of loop is at
CurrentCall == Get(response.toolCalls)[callIdx]
\* the for..of loop leaving early once the budget is used up
MoreCalls_UntilBudget ==
  callIdx <= Len(Get(response.toolCalls)) /\ ~BudgetExhausted

MoreCalls == callIdx <= Len(Get(response.toolCalls))

UnknownToolResult(toolCall) ==
  [role |-> "tool_result",
   content |-> "Unknown tool: \"" \o toolCall.name \o "\". Available tools: "
               \o Join([i \in 1..Len(config.availableTools) |->
                          config.availableTools[i].name], ", "),
   toolCallId |-> toolCall.id]

\* an unknown tool treated as a fatal error of the run
RejectUnknownTool_Fatal ==
  /\ pc = "forTools"
  /\ MoreCalls
  /\ ~IsSome(getToolByCommand(CurrentCall.name))
  /\ Yield([type |-> "error", message |-> UnknownToolResult(CurrentCall).content])
  /\ pc' = "terminal"
  /\ UNCHANGED <<config, history, messages, totalInputTokens, totalOutputTokens,
                 turnsRemaining, response, callIdx, requestCount, lastRequest,
                 providerLog, hostLog, aborted, escaped, toolVars, utilVars>>

\* if (!entry) { messages.push(unknown tool result); continue; }
RejectUnknownTool ==
  /\ pc = "forTools"
  /\ MoreCalls
  /\ ~IsSome(getToolByCommand(CurrentCall.name))
  /\ messages' = Append(messages, UnknownToolResult(CurrentCall))
  /\ callIdx' = callIdx + 1
  /\ UNCHANGED <<config, history, pc, totalInputTokens, totalOutputTokens,
                 turnsRemaining, response, yielded, requestCount, lastRequest,
                 providerLog, hostLog, aborted, escaped, toolVars, utilVars>>

\* the two branches of the conditional swapped
ActionFor_Swapped(entry, toolCall) ==
  IF entry.invocation # "autonomous"
  THEN [type |-> "tool_call", toolId |-> entry.id, callId |-> toolCall.id,
        args |-> toolCall.arguments]
  ELSE [type |-> "confirmation_required", toolId |-> entry.id, callId |-> toolCall.id,
        args |-> toolCall.arguments,
        description |-> entry.name \o ": " \o entry.description]

\* const action = entry.invocation === 'autonomous' ? tool_call : confirmation_required
ActionFor(entry, toolCall) ==
  IF entry.invocation = "autonomous"
  THEN [type |-> "tool_call", toolId |-> entry.id, callId |-> toolCall.id,
        args |-> toolCall.arguments]
  ELSE [type |-> "confirmation_required", toolId |-> entry.id, callId |-> toolCall.id,
        args |-> toolCall.arguments,
        description |-> entry.name \o ": " \o entry.description]

\* the action handed over without suspending: the for..of loop goes on
YieldToolAction_NoSuspend ==
  /\ pc = "forTools"
  /\ MoreCalls
  /\ IsSome(getToolByCommand(CurrentCall.name))
  /\ Yield(ActionFor(Get(getToolByCommand(CurrentCall.name)), CurrentCall))
  /\ callIdx' = callIdx + 1
  /\ UNCHANGED <<config, history, pc, messages, totalInputTokens, totalOutputTokens,
                 turnsRemaining, response, requestCount, lastRequest,
                 providerLog, hostLog, aborted, escaped, toolVars, utilVars>>

\* const toolResult = yield action: the generator suspends until the host resumes
YieldToolAction ==
  /\ pc = "forTools"
  /\ MoreCalls
  /\ IsSome(getToolByCommand(CurrentCall.name))
  /\ Yield(ActionFor(Get(getToolByCommand(CurrentCall.name)), CurrentCall))
  /\ pc' = "awaitHost"
  /\ UNCHANGED <<config, history, messages, totalInputTokens, totalOutputTokens,
                 turnsRemaining, response, callIdx, requestCount, lastRequest,
                 providerLog, hostLog, aborted, escaped, toolVars, utilVars>>

\* the tool_result message pushed for what the host resumed with
ResultMessage(toolResult, toolCall) ==
  IF IsSome(toolResult)
  THEN [role |-> "tool_result", content |-> Get(toolResult).content,
        toolCallId |-> Get(toolResult).toolCallId]
  ELSE [role |-> "tool_result",
        content |-> "Tool execution was skipped or denied by the user.",
        toolCallId |-> toolCall.id]

\* a result inserted right after the turn's assistant message instead of pushed
PushResult_AfterAssistant(msgs, m) ==
  LET a == CHOOSE i \in 1..Len(msgs) :
             /\ msgs[i].role = "assistant"
             /\ \A k \in (i + 1)..Len(msgs) : msgs[k].role # "assistant"
  IN SubSeq(msgs, 1, a) \o << m >> \o SubSeq(msgs, a + 1, Len(msgs))

\* messages.push(tool_result)
PushResult(msgs, m) == Append(msgs, m)

\* a resume with nothing treated as the end of the run
HostResume_DenialEnds ==
  /\ pc = "awaitHost"
  /\ \E toolResult \in HostResumeValues :
       /\ messages' = PushResult(messages, ResultMessage(toolResult, CurrentCall))
       /\ hostLog' = Append(hostLog,
                            IF IsSome(toolResult)
                            THEN Some([toolCallId |-> Get(toolResult).toolCallId,
                                       content |-> Get(toolResult).content])
                            ELSE None)
       /\ IF IsSome(toolResult)
          THEN pc' = "forTools" /\ yielded' = yielded
          ELSE pc' = "terminal"
               /\ Yield([type |-> "error", message |-> "Tool call denied."])
  /\ callIdx' = callIdx + 1
  /\ UNCHANGED <<config, history, totalInputTokens, totalOutputTokens,
                 turnsRemaining, response, requestCount, lastRequest,
                 providerLog, aborted, escaped, toolVars, utilVars>>

\* the host calls next(toolResult) or next()
HostResume ==
  /\ pc = "awaitHost"
  /\ \E toolResult \in HostResumeValues :
       /\ messages' = PushResult(messages, ResultMessage(toolResult, CurrentCall))
       /\ hostLog' = Append(hostLog,
                            IF IsSome(toolResult)
                            THEN Some([toolCallId |-> Get(toolResult).toolCallId,
                                       content |-> Get(toolResult).content])
                            ELSE None)
  /\ callIdx' = callIdx + 1
  /\ pc' = "forTools"
  /\ UNCHANGED <<config, history, totalInputTokens, totalOutputTokens,
                 turnsRemaining, response, yielded, requestCount, lastRequest,
                 providerLog, aborted, escaped, toolVars, utilVars>>

\* the end of a turn charging one turn per tool call
EndTurn_PerCall ==
  /\ pc = "forTools"
  /\ ~MoreCalls
  /\ turnsRemaining' = turnsRemaining - Len(Get(response.toolCalls))
  /\ pc' = "loopTop"
  /\ UNCHANGED <<config, history, messages, totalInputTokens, totalOutputTokens,
                 response, callIdx, yielded, requestCount, lastRequest,
                 providerLog, hostLog, aborted, escaped, toolVars, utilVars>>

\* the end of a turn without the decrement
EndTurn_NoDecrement ==
  /\ pc = "forTools"
  /\ ~MoreCalls
  /\ pc' = "loopTop"
  /\ UNCHANGED <<config, history, messages, totalInputTokens, totalOutputTokens,
                 turnsRemaining, response, callIdx, yielded, requestCount,
                 lastRequest, providerLog, hostLog, aborted, escaped, toolVars, utilVars>>

\* the for..of loop is over: turnsRemaining--
EndTurn ==
  /\ pc = "forTools"
  /\ ~MoreCalls
  /\ turnsRemaining' = turnsRemaining - 1
  /\ pc' = "loopTop"
  /\ UNCHANGED <<config, history, messages, totalInputTokens, totalOutputTokens,
                 response, callIdx, yielded, requestCount, lastRequest,
                 providerLog, hostLog, aborted, escaped, toolVars, utilVars>>

\* next() after a terminal action: the body returns and the generator is done
Return ==
  /\ pc = "terminal"
  /\ pc' = "done"
  /\ UNCHANGED <<config, history, messages, totalInputTokens, totalOutputTokens,
                 turnsRemaining, response, callIdx, yielded, requestCount,
                 lastRequest, providerLog, hostLog, aborted, escaped, toolVars, utilVars>>

\* the host raises its abort signal; it runs only while the generator is suspended
HostAbort ==
  /\ pc \in {"start", "awaitProvider", "awaitHost", "terminal"}
  /\ ~aborted
  /\ aborted' = TRUE
  /\ UNCHANGED <<config, history, pc, messages, totalInputTokens, totalOutputTokens,
                 turnsRemaining, response, callIdx, yielded, requestCount,
                 lastRequest, providerLog, hostLog, escaped, toolVars, utilVars>>

\* the generator and its environment, the host's abort signal left out: the loop
\* takes no signal, so aborting changes nothing the loop reads
Next ==
  \/ Start
  \/ YieldBudgetError
  \/ SendRequest
  \/ YieldTurnLimitError
  \/ ProviderRejects
  \/ ReceiveFinalResponse
  \/ ReceiveToolCalls
  \/ RejectUnknownTool
  \/ YieldToolAction
  \/ HostResume
  \/ EndTurn
  \/ Return

Spec == Init /\ [][Next]_vars

\* the same with a host that may abort while the generator is suspended
NextCancel == Next \/ HostAbort

SpecCancel == Init /\ [][NextCancel]_vars

(***************************************************************************)
(* The analysis tools (packages/core/src/tools).  execute wraps the tool's *)
(* run(options): Finding[]; run is a sequence of phases, each an external  *)
(* operation (git, file system, model provider) that succeeds or throws.   *)
(***************************************************************************)
ToolIds == {"pr-review", "commit", "comments", "lint", "dead-code"}

MaxFiles == 2   \* files named by options.paths
MaxReads == 1   \* reads of a returned ScanResult
MaxLines == 6        \* lines of a file handed to parseConflictMarkers
MaxReviewLines == 3  \* lines of a model response to the lint review
MaxCleanupFiles == 2 \* entries of params.files of hygiene.cleanup
MaxAnalyzerCalls == 3 \* calls of analyze and clearCache on one HygieneAnalyzer
MaxTicks == 3        \* advances of the clock, TickMs each
MaxRefreshes == 3    \* refreshFromSettings calls of one ProviderManager

\* ScanOptions and injected dependencies, by tool
ScanOptionsFor(t) ==
  { [paths |-> n, restoreOriginal |-> r, preCommitDryRun |-> d, hasModel |-> m,
     signalAborted |-> FALSE] :
      n \in (IF t \in {"comments", "dead-code"} THEN 0..MaxFiles ELSE {1}),
      r \in (IF t = "pr-review" THEN BOOLEAN ELSE {TRUE}),
      d \in (IF t = "commit" THEN BOOLEAN ELSE {FALSE}),
      m \in (IF t \in {"lint", "dead-code"} THEN BOOLEAN ELSE {TRUE}) }

\* the generator is not driven while a tool executes
AgentIdle ==
  /\ config = [maxTurns |-> 1, maxTokenBudget |-> 400, systemPrompt |-> "",
               availableTools |-> ToolDefinitions]
  /\ history = << >>
  /\ pc = "start"
  /\ messages = << >>
  /\ totalInputTokens = 0
  /\ totalOutputTokens = 0
  /\ turnsRemaining = 0
  /\ response = [content |-> "", usage |-> None, toolCalls |-> None]
  /\ callIdx = 0
  /\ yielded = << >>
  /\ requestCount = 0
  /\ lastRequest = None
  /\ providerLog = << >>
  /\ hostLog = << >>
  /\ aborted = FALSE
  /\ escaped = FALSE

RunLocals ==
  [pc |-> "idle", findings |-> << >>, originalBranch |-> None, stashRef |-> None,
   fileIdx |-> 0, fileContents |-> {}, dismissals |-> {}, thrown |-> None]

InitTools ==
  /\ AgentIdle
  /\ UtilitiesIdle("")
  /\ tool \in ToolIds
  /\ options \in ScanOptionsFor(tool)
  /\ scan = [status |-> "pending", findings |-> << >>, error |-> None]
  /\ run = RunLocals
  /\ repo \in { [branch |-> b, dirty |-> d, stashes |-> 0] :
                   b \in (IF tool = "pr-review" THEN {"main", "feature"} ELSE {"main"}),
                   d \in BOOLEAN }
  /\ opLog = << >>
  /\ reads = 0

\* this.createFinding({title, ..., severity})
createFindingAt(title, severity, location, description) ==
  [title |-> title, severity |-> severity, location |-> location,
   description |-> description]
\* the findings about the run as a whole are located at the repository root
createFinding(title, severity) ==
  createFindingAt(title, severity, [filePath |-> ".", startLine |-> 0], "")
\* this.createErrorFinding(path, error, context)
createErrorFinding(context) == createFinding("Error during " \o context, "warning")

\* this.throwIfCancelled(options) throws when the signal is aborted
throwIfCancelled(opts) == opts.signalAborted

Goto(p) == run' = [run EXCEPT !.pc = p]
Push(p, f) == run' = [run EXCEPT !.pc = p, !.findings = Append(@, f)]
Throw(err) == run' = [run EXCEPT !.pc = "threw", !.thrown = Some(err)]
Log(op, ok) == opLog' = Append(opLog, [op |-> op, ok |-> ok, at |-> run.pc])
FirstPhase(t) ==
  CASE t = "pr-review" -> "pr0"
    [] t = "commit" -> "c1"
    [] t = "comments" -> "cm0"
    [] t = "lint" -> "l0"
    [] t = "dead-code" -> "d0"

\* execute(options): pending -> running, then run(options)
Execute ==
  /\ scan.status = "pending"
  /\ run.pc = "idle"
  /\ scan' = [scan EXCEPT !.status = "running"]
  /\ Goto(FirstPhase(tool))
  /\ UNCHANGED <<utilVars, agentVars, tool, options, repo, opLog, reads>>

\* cancel() marking the scan itself, whatever its status
Cancel_MarksScan ==
  /\ scan.status \in {"running", "completed", "failed"}
  /\ ~options.signalAborted
  /\ options' = [options EXCEPT !.signalAborted = TRUE]
  /\ scan' = [scan EXCEPT !.status = IF @ = "running" THEN @ ELSE "cancelled"]
  /\ UNCHANGED <<utilVars, agentVars, tool, run, repo, opLog, reads>>

\* cancel(): the abort signal is raised while the tool executes
Cancel ==
  /\ scan.status = "running"
  /\ ~options.signalAborted
  /\ options' = [options EXCEPT !.signalAborted = TRUE]
  /\ UNCHANGED <<utilVars, agentVars, tool, scan, run, repo, opLog, reads>>

\* run returned its findings
MarkCompleted ==
  /\ scan.status = "running"
  /\ run.pc = "returned"
  /\ scan' = [scan EXCEPT !.status = "completed", !.findings = run.findings]
  /\ Goto("done")
  /\ UNCHANGED <<utilVars, agentVars, tool, options, repo, opLog, reads>>

\* run threw the cancellation error
MarkCancelled ==
  /\ scan.status = "running"
  /\ run.pc = "threw"
  /\ run.thrown = Some("Cancelled")
  /\ scan' = [scan EXCEPT !.status = "cancelled"]
  /\ Goto("done")
  /\ UNCHANGED <<utilVars, agentVars, tool, options, repo, opLog, reads>>

\* run threw anything else: the message is stored
MarkFailed ==
  /\ scan.status = "running"
  /\ run.pc = "threw"
  /\ run.thrown # Some("Cancelled")
  /\ scan' = [scan EXCEPT !.status = "failed", !.error = run.thrown]
  /\ Goto("done")
  /\ UNCHANGED <<utilVars, agentVars, tool, options, repo, opLog, reads>>

\* the returned ScanResult is read (export, sidebar)
ReadResult ==
  /\ scan.status \in {"completed", "failed", "cancelled"}
  /\ reads < MaxReads
  /\ reads' = reads + 1
  /\ UNCHANGED <<utilVars, agentVars, tool, options, scan, run, repo, opLog>>

(***************************************************************************)
(* PRReviewTool.run                                                        *)
(***************************************************************************)
PRBranch == "feature"

\* control reaches the catch block of run with the error
PRCatch(err) == run' = [run EXCEPT !.pc = "prCatch", !.thrown = Some(err)]

\* const repoRoot = await getRepoRoot(cwd), before the try
PRRepoRoot ==
  /\ tool = "pr-review" /\ run.pc = "pr0"
  /\ \E ok \in BOOLEAN :
       /\ Log("getRepoRoot", ok)
       /\ IF ok THEN Goto("pr1") ELSE Throw("git failed")
  /\ UNCHANGED <<utilVars, agentVars, tool, options, scan, repo, reads>>

\* Phase 1: get original branch
PRGetBranch ==
  /\ tool = "pr-review" /\ run.pc = "pr1"
  /\ IF throwIfCancelled(options)
     THEN Log("throwIfCancelled", FALSE) /\ PRCatch("Cancelled")
     ELSE \E ok \in BOOLEAN :
            /\ Log("getCurrentBranch", ok)
            /\ IF ok
               THEN run' = [run EXCEPT !.pc = "pr2", !.originalBranch = Some(repo.branch)]
               ELSE PRCatch("git failed")
  /\ UNCHANGED <<utilVars, agentVars, tool, options, scan, repo, reads>>

\* Phase 2: check for PRs
PRFindPR ==
  /\ tool = "pr-review" /\ run.pc = "pr2"
  /\ IF throwIfCancelled(options)
     THEN Log("throwIfCancelled", FALSE) /\ PRCatch("Cancelled")
     ELSE \E outcome \in {"found", "none", "throws"} :
            /\ Log("listPotentialPullRequests", outcome # "throws")
            /\ CASE outcome = "found" -> Goto("pr3")
                 [] outcome = "none" -> Push("returned", createFinding("No PRs found", "info"))
                 [] outcome = "throws" -> PRCatch("git failed")
  /\ UNCHANGED <<utilVars, agentVars, tool, options, scan, repo, reads>>

\* Phase 3: stash current changes if any
PRStash ==
  /\ tool = "pr-review" /\ run.pc = "pr3"
  /\ IF throwIfCancelled(options)
     THEN Log("throwIfCancelled", FALSE) /\ PRCatch("Cancelled") /\ repo' = repo
     ELSE IF ~repo.dirty
     THEN Log("hasUncommittedChanges", TRUE) /\ Goto("pr4") /\ repo' = repo
     ELSE \E ok \in BOOLEAN :
            /\ Log("stashChanges", ok)
            /\ IF ok
               THEN /\ run' = [run EXCEPT !.pc = "pr4", !.stashRef = Some("stash@{0}")]
                    /\ repo' = [repo EXCEPT !.dirty = FALSE, !.stashes = @ + 1]
               ELSE PRCatch("git failed") /\ repo' = repo
  /\ UNCHANGED <<utilVars, agentVars, tool, options, scan, reads>>

\* Phase 4: checkout PR branch
PRCheckout ==
  /\ tool = "pr-review" /\ run.pc = "pr4"
  /\ IF throwIfCancelled(options)
     THEN Log("throwIfCancelled", FALSE) /\ PRCatch("Cancelled") /\ repo' = repo
     ELSE \E ok \in BOOLEAN :
            /\ Log("checkoutRemoteBranch", ok)
            /\ IF ok
               THEN Goto("pr5") /\ repo' = [repo EXCEPT !.branch = PRBranch]
               ELSE PRCatch("git failed") /\ repo' = repo
  /\ UNCHANGED <<utilVars, agentVars, tool, options, scan, reads>>

\* Phase 5: get diff and commit log
PRDiffAndLog ==
  /\ tool = "pr-review" /\ run.pc = "pr5"
  /\ IF throwIfCancelled(options)
     THEN Log("throwIfCancelled", FALSE) /\ PRCatch("Cancelled")
     ELSE \E ok \in BOOLEAN :
            /\ Log("execGit", ok)
            /\ IF ok THEN Goto("pr6") ELSE PRCatch("git failed")
  /\ UNCHANGED <<utilVars, agentVars, tool, options, scan, repo, reads>>

\* Phase 6: the model request, in its own try; its catch pushes a finding and returns
PRModelRequest ==
  /\ tool = "pr-review" /\ run.pc = "pr6"
  /\ IF throwIfCancelled(options)
     THEN Log("throwIfCancelled", FALSE) /\ PRCatch("Cancelled")
     ELSE \E ok \in BOOLEAN :
            /\ Log("sendRequest", ok)
            /\ IF ok THEN Goto("pr7")
               ELSE Push("returned", createErrorFinding("PR review generation"))
  /\ UNCHANGED <<utilVars, agentVars, tool, options, scan, repo, reads>>

\* Phase 7: parse the model response, store the summary as a finding
PRParse ==
  /\ tool = "pr-review" /\ run.pc = "pr7"
  /\ IF throwIfCancelled(options)
     THEN Log("throwIfCancelled", FALSE) /\ PRCatch("Cancelled")
     ELSE Log("parsePRReviewResponse", TRUE) /\ Push("pr8", createFinding("PR Review", "info"))
  /\ UNCHANGED <<utilVars, agentVars, tool, options, scan, repo, reads>>

\* Phase 8: restore the original branch if requested, pop the stash if one was made
PRRestore ==
  /\ tool = "pr-review" /\ run.pc = "pr8"
  /\ IF ~(options.restoreOriginal /\ IsSome(run.originalBranch)
            /\ Get(run.originalBranch) # PRBranch)
     THEN /\ Push("returned", createFinding("Branch checkout complete", "info"))
          /\ UNCHANGED <<opLog, repo>>
     ELSE IF throwIfCancelled(options)
     THEN Log("throwIfCancelled", FALSE) /\ PRCatch("Cancelled") /\ repo' = repo
     ELSE \E okCheckout \in BOOLEAN, okPop \in BOOLEAN :
            IF ~okCheckout
            THEN Log("checkout original", FALSE) /\ PRCatch("git failed") /\ repo' = repo
            ELSE IF ~IsSome(run.stashRef)
            THEN /\ Log("checkout original", TRUE)
                 /\ Goto("returned")
                 /\ repo' = [repo EXCEPT !.branch = Get(run.originalBranch)]
            ELSE /\ opLog' = opLog \o << [op |-> "checkout original", ok |-> TRUE, at |-> run.pc],
                                         [op |-> "popStash", ok |-> okPop, at |-> run.pc] >>
                 /\ IF okPop
                    THEN /\ Goto("returned")
                         /\ repo' = [branch |-> Get(run.originalBranch), dirty |-> TRUE,
                                     stashes |-> repo.stashes - 1]
                    ELSE /\ Push("returned", createFinding("Stash restore warning", "warning"))
                         /\ repo' = [repo EXCEPT !.branch = Get(run.originalBranch)]
  /\ UNCHANGED <<utilVars, agentVars, tool, options, scan, reads>>

\* catch (error): cleanup, whose own errors are ignored, then an error finding
PRCleanup ==
  /\ tool = "pr-review" /\ run.pc = "prCatch"
  /\ IF ~(IsSome(run.originalBranch) /\ options.restoreOriginal)
     THEN UNCHANGED <<opLog, repo>>
     ELSE \E okCheckout \in BOOLEAN, okPop \in BOOLEAN :
            IF ~okCheckout
            THEN Log("checkout original", FALSE) /\ repo' = repo
            ELSE IF ~IsSome(run.stashRef)
            THEN /\ Log("checkout original", TRUE)
                 /\ repo' = [repo EXCEPT !.branch = Get(run.originalBranch)]
            ELSE /\ opLog' = opLog \o << [op |-> "checkout original", ok |-> TRUE, at |-> run.pc],
                                         [op |-> "popStash", ok |-> okPop, at |-> run.pc] >>
                 /\ repo' = IF okPop
                            THEN [branch |-> Get(run.originalBranch), dirty |-> TRUE,
                                  stashes |-> repo.stashes - 1]
                            ELSE [repo EXCEPT !.branch = Get(run.originalBranch)]
  /\ Push("returned", createErrorFinding("PR review"))
  /\ UNCHANGED <<utilVars, agentVars, tool, options, scan, reads>>

(***************************************************************************)
(* CommitTool.run: no try/catch, a phase that throws makes run throw       *)
(***************************************************************************)
\* Phase 1: detect changed files
CommitDetect ==
  /\ tool = "commit" /\ run.pc = "c1"
  /\ IF throwIfCancelled(options)
     THEN Log("throwIfCancelled", FALSE) /\ Throw("Cancelled")
     ELSE \E outcome \in {"changed", "clean", "throws"} :
            /\ Log("getChangedFiles", outcome # "throws")
            /\ CASE outcome = "changed" -> Goto("c2")
                 [] outcome = "clean" ->
                      Push("returned", createFinding("No changes to commit", "info"))
                 [] outcome = "throws" -> Throw("git failed")
  /\ UNCHANGED <<utilVars, agentVars, tool, options, scan, repo, reads>>

\* Phase 2: auto-stage
CommitStage ==
  /\ tool = "commit" /\ run.pc = "c2"
  /\ IF throwIfCancelled(options)
     THEN Log("throwIfCancelled", FALSE) /\ Throw("Cancelled")
     ELSE \E ok \in BOOLEAN :
            /\ Log("autoStage", ok)
            /\ IF ok THEN Goto("c3") ELSE Throw("git failed")
  /\ UNCHANGED <<utilVars, agentVars, tool, options, scan, repo, reads>>

\* Phase 3 with the model request in a try/catch that reports a finding
CommitMessage_CatchesModelFailure ==
  /\ tool = "commit" /\ run.pc = "c3"
  /\ IF throwIfCancelled(options)
     THEN Log("throwIfCancelled", FALSE) /\ Throw("Cancelled")
     ELSE \E outcome \in {"ok", "git throws", "model throws"} :
            CASE outcome = "ok" -> Log("sendRequest", TRUE) /\ Goto("c4")
              [] outcome = "git throws" -> Log("getStagedDiff", FALSE) /\ Throw("git failed")
              [] outcome = "model throws" ->
                   Log("sendRequest", FALSE)
                   /\ Push("returned", createErrorFinding("commit message generation"))
  /\ UNCHANGED <<utilVars, agentVars, tool, options, scan, repo, reads>>

\* Phase 3: generate the commit message (staged diff, then the model request)
CommitMessage ==
  /\ tool = "commit" /\ run.pc = "c3"
  /\ IF throwIfCancelled(options)
     THEN Log("throwIfCancelled", FALSE) /\ Throw("Cancelled")
     ELSE \E outcome \in {"ok", "git throws", "model throws"} :
            CASE outcome = "ok" -> Log("sendRequest", TRUE) /\ Goto("c4")
              [] outcome = "git throws" -> Log("getStagedDiff", FALSE) /\ Throw("git failed")
              [] outcome = "model throws" -> Log("sendRequest", FALSE) /\ Throw("model failed")
  /\ UNCHANGED <<utilVars, agentVars, tool, options, scan, repo, reads>>

\* the findings of a validation: one per constraint violation
ViolationFindings(violated) ==
  IF violated THEN << createFinding("Constraint violation", "warning") >> ELSE << >>
ProposalFinding(valid) ==
  createFinding("Commit proposal ready", IF valid THEN "info" ELSE "warning")

\* Phase 4: validate constraints; without the hook dry-run, Phase 6 follows at once
CommitValidate ==
  /\ tool = "commit" /\ run.pc = "c4"
  /\ IF throwIfCancelled(options)
     THEN Log("throwIfCancelled", FALSE) /\ Throw("Cancelled")
     ELSE \E violated \in BOOLEAN :
            /\ Log("validateCommitMessage", TRUE)
            /\ IF options.preCommitDryRun
               THEN run' = [run EXCEPT !.pc = IF violated THEN "c5v" ELSE "c5",
                                       !.findings = @ \o ViolationFindings(violated)]
               ELSE run' = [run EXCEPT !.pc = "returned",
                                       !.findings = @ \o ViolationFindings(violated)
                                                      \o << ProposalFinding(~violated) >>]
  /\ UNCHANGED <<utilVars, agentVars, tool, options, scan, repo, reads>>

\* Phase 5: pre-commit hook dry-run, then Phase 6: the proposal
CommitHooks ==
  /\ tool = "commit" /\ run.pc \in {"c5", "c5v"}
  /\ IF throwIfCancelled(options)
     THEN Log("throwIfCancelled", FALSE) /\ Throw("Cancelled")
     ELSE \E outcome \in {"passed", "hook failed", "throws"} :
            /\ Log("checkHooks", outcome # "throws")
            /\ CASE outcome = "passed" -> Push("returned", ProposalFinding(run.pc = "c5"))
                 [] outcome = "hook failed" ->
                      run' = [run EXCEPT !.pc = "returned",
                                !.findings = @ \o << createFinding("Pre-commit hook failed", "warning"),
                                                     ProposalFinding(run.pc = "c5") >>]
                 [] outcome = "throws" -> Throw("git failed")
  /\ UNCHANGED <<utilVars, agentVars, tool, options, scan, repo, reads>>

(***************************************************************************)
(* CommentsTool.run: each file in its own try/catch                        *)
(***************************************************************************)
\* the for..of over filePaths moves to the next file, or run returns
NextFile(r) ==
  IF r.fileIdx < options.paths
  THEN [r EXCEPT !.pc = "cmFile", !.fileIdx = @ + 1]
  ELSE [r EXCEPT !.pc = "returned"]
ErrorAnalyzing == createFinding("Error analyzing file", "warning")

\* getRepoRoot, and the early return when no paths are given
CommentsStart ==
  /\ tool = "comments" /\ run.pc = "cm0"
  /\ \E ok \in BOOLEAN :
       /\ Log("getRepoRoot", ok)
       /\ IF ~ok THEN Throw("git failed")
          ELSE IF options.paths = 0
          THEN Push("returned", createFinding("No files specified", "info"))
          ELSE run' = [run EXCEPT !.pc = "cmFile", !.fileIdx = 1]
  /\ UNCHANGED <<utilVars, agentVars, tool, options, scan, repo, reads>>

\* one file: the check at the head of the loop body, the read, Phase 1
CommentsFile ==
  /\ tool = "comments" /\ run.pc = "cmFile"
  /\ IF throwIfCancelled(options)
     THEN Log("throwIfCancelled", FALSE) /\ Throw("Cancelled")
     ELSE \E outcome \in {"skipped", "read throws", "no comments", "comments", "stale"} :
            /\ Log("readFile", outcome # "read throws")
            /\ CASE outcome \in {"skipped", "no comments"} -> run' = NextFile(run)
                 [] outcome = "read throws" ->
                      run' = NextFile([run EXCEPT !.findings = Append(@, ErrorAnalyzing)])
                 [] outcome = "comments" -> Goto("cmModel")
                 [] outcome = "stale" -> Push("cmModel", createFinding("Stale comment", "info"))
  /\ UNCHANGED <<utilVars, agentVars, tool, options, scan, repo, reads>>

\* Phase 2 of one file, inside the file's try: the check, then the model
CommentsModel ==
  /\ tool = "comments" /\ run.pc = "cmModel"
  /\ IF throwIfCancelled(options)
     THEN /\ Log("throwIfCancelled", FALSE)
          /\ run' = NextFile([run EXCEPT !.findings = Append(@, ErrorAnalyzing)])
     ELSE \E outcome \in {"nothing", "finding", "throws"} :
            /\ Log("sendRequest", outcome # "throws")
            /\ CASE outcome = "nothing" -> run' = NextFile(run)
                 [] outcome = "finding" ->
                      run' = NextFile([run EXCEPT !.findings =
                                         Append(@, createFinding("Remove comment", "info"))])
                 [] outcome = "throws" ->
                      run' = NextFile([run EXCEPT !.findings = Append(@, ErrorAnalyzing)])
  /\ UNCHANGED <<utilVars, agentVars, tool, options, scan, repo, reads>>

(***************************************************************************)
(* LintTool.run                                                            *)
(***************************************************************************)
LintStart ==
  /\ tool = "lint" /\ run.pc = "l0"
  /\ \E ok \in BOOLEAN :
       /\ Log("getRepoRoot", ok)
       /\ IF ok THEN Goto("l1") ELSE Throw("git failed")
  /\ UNCHANGED <<utilVars, agentVars, tool, options, scan, repo, reads>>

\* Phase 1: the external linter; when it cannot run its findings are none
LintLinters ==
  /\ tool = "lint" /\ run.pc = "l1"
  /\ IF throwIfCancelled(options)
     THEN Log("throwIfCancelled", FALSE) /\ Throw("Cancelled")
     ELSE \E outcome \in {"clean", "finding", "unavailable"} :
            /\ Log("eslint", outcome # "unavailable")
            /\ run' = [run EXCEPT
                 !.pc = IF options.hasModel THEN "l2" ELSE "returned",
                 !.findings = IF outcome = "finding"
                              THEN Append(@, createFinding("ESLint: no-unused-vars", "warning"))
                              ELSE @]
  /\ UNCHANGED <<utilVars, agentVars, tool, options, scan, repo, reads>>

\* Phase 2 telling of its failure
LintModelAnalysis_ReportsFailure ==
  /\ tool = "lint" /\ run.pc = "l2"
  /\ IF throwIfCancelled(options)
     THEN Log("throwIfCancelled", FALSE) /\ Throw("Cancelled")
     ELSE \E outcome \in {"nothing", "finding", "throws"} :
            /\ Log("sendRequest", outcome # "throws")
            /\ CASE outcome = "nothing" -> Goto("returned")
                 [] outcome = "finding" ->
                      Push("returned", createFinding("Code smell detected", "warning"))
                 [] outcome = "throws" ->
                      Push("returned", createErrorFinding("model analysis"))
  /\ UNCHANGED <<utilVars, agentVars, tool, options, scan, repo, reads>>

\* Phase 2: runModelAnalysis, whose catch is empty
LintModelAnalysis ==
  /\ tool = "lint" /\ run.pc = "l2"
  /\ IF throwIfCancelled(options)
     THEN Log("throwIfCancelled", FALSE) /\ Throw("Cancelled")
     ELSE \E outcome \in {"nothing", "finding", "throws"} :
            /\ Log("sendRequest", outcome # "throws")
            /\ CASE outcome = "nothing" -> Goto("returned")
                 [] outcome = "finding" ->
                      Push("returned", createFinding("Code smell detected", "warning"))
                 [] outcome = "throws" -> Goto("returned")
  /\ UNCHANGED <<utilVars, agentVars, tool, options, scan, repo, reads>>

(***************************************************************************)
(* DeadCodeTool.run                                                        *)
(***************************************************************************)
\* getRepoRoot, the check, collectSourceFiles
DeadCodeStart ==
  /\ tool = "dead-code" /\ run.pc = "d0"
  /\ \E ok \in BOOLEAN :
       IF ~ok THEN Log("getRepoRoot", FALSE) /\ Throw("git failed")
       ELSE IF throwIfCancelled(options)
       THEN Log("throwIfCancelled", FALSE) /\ Throw("Cancelled")
       ELSE /\ Log("collectSourceFiles", TRUE)
            /\ IF options.paths = 0
               THEN Push("returned", createFinding("No source files found", "info"))
               ELSE run' = [run EXCEPT !.pc = "dFile", !.fileIdx = 1]
  /\ UNCHANGED <<utilVars, agentVars, tool, options, scan, repo, reads>>

\* Phase 1, one file: an unreadable file is skipped
DeadCodeFile ==
  /\ tool = "dead-code" /\ run.pc = "dFile"
  /\ IF throwIfCancelled(options)
     THEN Log("throwIfCancelled", FALSE) /\ Throw("Cancelled")
     ELSE \E ok \in BOOLEAN :
            /\ Log("readFile", ok)
            /\ run' = [run EXCEPT
                        !.fileContents = IF ok THEN @ \cup {run.fileIdx} ELSE @,
                        !.fileIdx = IF run.fileIdx < options.paths THEN @ + 1 ELSE @,
                        !.pc = IF run.fileIdx < options.paths THEN @ ELSE "dUsage"]
  /\ UNCHANGED <<utilVars, agentVars, tool, options, scan, repo, reads>>

\* relative path of the k-th file, and the export found in it
UnusedExport(k) ==
  createFindingAt("Unused export", "warning",
                  [filePath |-> "f" \o NatToString(k) \o ".ts", startLine |-> k],
                  "Exported function appears to be unused across the scanned files.")
\* one finding per file of the set, in file order
RECURSIVE UnusedExports(_, _)
UnusedExports(files, k) ==
  IF k > MaxFiles THEN << >>
  ELSE (IF k \in files THEN << UnusedExport(k) >> ELSE << >>)
         \o UnusedExports(files, k + 1)

\* Phase 1, usage check of the exports of the files read
DeadCodeUsage ==
  /\ tool = "dead-code" /\ run.pc = "dUsage"
  /\ IF throwIfCancelled(options)
     THEN Log("throwIfCancelled", FALSE) /\ Throw("Cancelled")
     ELSE \E unused \in SUBSET run.fileContents :
            /\ Log("usage check", TRUE)
            /\ run' = [run EXCEPT
                         !.findings = @ \o UnusedExports(unused, 1),
                         !.pc = IF options.hasModel /\ unused # {}
                                THEN "dModel" ELSE "returned"]
  /\ UNCHANGED <<utilVars, agentVars, tool, options, scan, repo, reads>>

\* `${finding.location.filePath}:${String(finding.location.startLine)}`
FindingKey(f) == f.location.filePath \o ":" \o NatToString(f.location.startLine)

\* the lines a model response is made of: a verdict and the key it names
ResponseLines ==
  { [verb |-> v, key |-> FindingKey(UnusedExport(k))] :
      v \in {"CONFIRM", "DISMISS"}, k \in 1..MaxFiles }
    \cup { [verb |-> "DISMISS", key |-> "other.ts:9"] }

\* the keys of the lines that start with DISMISS|
DismissalsIn(lines) == { l.key : l \in { x \in lines : x.verb = "DISMISS" } }

\* the downgrade loop over staticFindings
Downgrade(findings, dismissals) ==
  [i \in 1..Len(findings) |->
     IF FindingKey(findings[i]) \in dismissals
     THEN [findings[i] EXCEPT !.severity = "hint",
                              !.description =
                                @ \o " (Model suggests this may be a false positive.)"]
     ELSE findings[i]]

\* a review whose insights are pushed as one more finding
DeadCodeModelReview_AddsInsights ==
  /\ tool = "dead-code" /\ run.pc = "dModel"
  /\ IF throwIfCancelled(options)
     THEN Log("throwIfCancelled", FALSE) /\ Throw("Cancelled")
     ELSE \E ok \in BOOLEAN, lines \in SUBSET ResponseLines :
            /\ Log("sendRequest", ok)
            /\ IF ok
               THEN run' = [run EXCEPT
                              !.pc = "returned",
                              !.dismissals = DismissalsIn(lines),
                              !.findings = Append(Downgrade(@, DismissalsIn(lines)),
                                                  createFinding("Model review", "info"))]
               ELSE Goto("returned")
  /\ UNCHANGED <<utilVars, agentVars, tool, options, scan, repo, reads>>

\* Phase 2: modelReview downgrades the findings the model dismisses, returns no
\* finding of its own; its catch is empty
DeadCodeModelReview ==
  /\ tool = "dead-code" /\ run.pc = "dModel"
  /\ IF throwIfCancelled(options)
     THEN Log("throwIfCancelled", FALSE) /\ Throw("Cancelled")
     ELSE \E ok \in BOOLEAN, lines \in SUBSET ResponseLines :
            /\ Log("sendRequest", ok)
            /\ IF ok
               THEN run' = [run EXCEPT
                              !.pc = "returned",
                              !.dismissals = DismissalsIn(lines),
                              !.findings = Downgrade(@, DismissalsIn(lines))]
               ELSE Goto("returned")
  /\ UNCHANGED <<utilVars, agentVars, tool, options, scan, repo, reads>>

NextTools ==
  \/ Execute
  \/ Cancel
  \/ MarkCompleted
  \/ MarkCancelled
  \/ MarkFailed
  \/ ReadResult
  \/ PRRepoRoot
  \/ PRGetBranch
  \/ PRFindPR
  \/ PRStash
  \/ PRCheckout
  \/ PRDiffAndLog
  \/ PRModelRequest
  \/ PRParse
  \/ PRRestore
  \/ PRCleanup
  \/ CommitDetect
  \/ CommitStage
  \/ CommitMessage
  \/ CommitValidate
  \/ CommitHooks
  \/ CommentsStart
  \/ CommentsFile
  \/ CommentsModel
  \/ LintStart
  \/ LintLinters
  \/ LintModelAnalysis
  \/ DeadCodeStart
  \/ DeadCodeFile
  \/ DeadCodeUsage
  \/ DeadCodeModelReview

SpecTools == InitTools /\ [][NextTools]_vars

(***************************************************************************)
(* parseConflictMarkers (git/conflicts.ts): the hunks of a file's content. *)
(* conflicts.lines is content.split('\n'); conflicts.i is the 0-based      *)
(* index of the while loop, so the line it looks at is lines[i + 1] here.  *)
(***************************************************************************)
MARKER_OURS == "<<<<<<<"
MARKER_SEPARATOR == "======="
MARKER_THEIRS == ">>>>>>>"

\* content.split('\n') of the file contents of the model
FileLines ==
  UNION { [1..n -> { "<<<<<<< HEAD", "=======", ">>>>>>> feat", "text" }] :
            n \in 1..MaxLines }

\* String.prototype.trim, for blanks
RECURSIVE Trim(_)
Trim(str) ==
  IF Len(str) = 0 THEN str
  ELSE IF SubSeq(str, 1, 1) = " " THEN Trim(SubSeq(str, 2, Len(str)))
  ELSE IF SubSeq(str, Len(str), Len(str)) = " " THEN Trim(SubSeq(str, 1, Len(str) - 1))
  ELSE str

\* line.slice(MARKER.length).trim()
LabelOf(line, marker) == Trim(SubSeq(line, Len(marker) + 1, Len(line)))

\* the for loop of parseOneHunk from 0-based index i on; acc holds its locals
RECURSIVE ScanHunk(_, _, _)
ScanHunk(lines, i, acc) ==
  IF i >= Len(lines) THEN acc
  ELSE LET line == lines[i + 1] IN
    IF ~acc.separatorFound /\ StartsWith(line, MARKER_SEPARATOR)
    THEN ScanHunk(lines, i + 1, [acc EXCEPT !.separatorFound = TRUE])
    ELSE IF acc.separatorFound /\ StartsWith(line, MARKER_THEIRS)
    THEN [acc EXCEPT !.theirsLabel = LabelOf(line, MARKER_THEIRS), !.endLine = i + 1]
    ELSE IF acc.separatorFound
    THEN ScanHunk(lines, i + 1, [acc EXCEPT !.theirsLines = Append(@, line)])
    ELSE ScanHunk(lines, i + 1, [acc EXCEPT !.oursLines = Append(@, line)])

\* a hunk whenever a separator was found, whether or not the end marker was
parseOneHunk(lines, startIndex) ==
  LET startLine == startIndex + 1
      acc == ScanHunk(lines, startIndex + 1,
                      [oursLines |-> << >>, theirsLines |-> << >>,
                       separatorFound |-> FALSE, endLine |-> startLine,
                       theirsLabel |-> ""])
  IN IF ~acc.separatorFound THEN None
     ELSE Some([startLine |-> startLine,
                endLine |-> acc.endLine,
                ours |-> Join(acc.oursLines, "\n"),
                theirs |-> Join(acc.theirsLines, "\n"),
                oursLabel |-> LabelOf(lines[startIndex + 1], MARKER_OURS),
                theirsLabel |-> acc.theirsLabel])

InitConflicts ==
  /\ AgentIdle /\ ToolsIdle /\ UtilitiesIdle("conflicts")
  /\ \E lines \in FileLines :
       conflicts = [pc |-> "loop", lines |-> lines, i |-> 0, hunks |-> << >>]

\* one iteration of the while loop
ParseConflictLine ==
  /\ conflicts.pc = "loop"
  /\ conflicts.i < Len(conflicts.lines)
  /\ LET line == conflicts.lines[conflicts.i + 1]
         hunk == parseOneHunk(conflicts.lines, conflicts.i)
     IN conflicts' =
          IF StartsWith(line, MARKER_OURS) /\ IsSome(hunk)
          THEN [conflicts EXCEPT !.hunks = Append(@, Get(hunk)),
                                 !.i = Get(hunk).endLine]
          ELSE [conflicts EXCEPT !.i = @ + 1]
  /\ UNCHANGED <<agentVars, toolVars, review, cleanup, analyzer, manager>>

\* the loop ends, the hunks are returned
ReturnConflicts ==
  /\ conflicts.pc = "loop"
  /\ conflicts.i >= Len(conflicts.lines)
  /\ conflicts' = [conflicts EXCEPT !.pc = "returned"]
  /\ UNCHANGED <<agentVars, toolVars, review, cleanup, analyzer, manager>>

NextConflicts == ParseConflictLine \/ ReturnConflicts
SpecConflicts == InitConflicts /\ [][NextConflicts]_vars

(***************************************************************************)
(* LintTool.runModelAnalysis (tools/lint/index.ts): the model's response   *)
(* is read line by line against                                            *)
(*   /^(ISSUE|SUGGESTION)\|([^|]+)\|(\d+)\|(.+)$/                          *)
(* inside a try whose catch is empty.                                      *)
(***************************************************************************)
\* response.content.split('\n') of the responses of the model
ReviewResponses ==
  UNION { [1..n -> { "ISSUE|a.ts|12|desc",
                     "SUGGESTION|b.ts|3| use const ",
                     "ISSUE|a.ts|5|a|b",
                     "ISSUE|a.ts|12|desc\r",
                     "ISSUE|a.ts|x|desc",
                     "ISSUE||1|desc",
                     "ISSUE|a.ts|7|",
                     "issue|a.ts|1|desc",
                     "garbage",
                     "" }] : n \in 1..MaxReviewLines }

\* position of the first ch in str at or after from, 0 when there is none
RECURSIVE IndexOf(_, _, _)
IndexOf(str, ch, from) ==
  IF from > Len(str) THEN 0
  ELSE IF SubSeq(str, from, from) = ch THEN from
  ELSE IndexOf(str, ch, from + 1)

\* \d+
IsDigits(str) ==
  /\ Len(str) > 0
  /\ \A i \in 1..Len(str) : Contains("0123456789", SubSeq(str, i, i))

\* parseInt(str, 10) of a string of digits
RECURSIVE ParseInt(_)
ParseInt(str) ==
  IF Len(str) = 0 THEN 0
  ELSE ParseInt(SubSeq(str, 1, Len(str) - 1)) * 10
         + (IndexOf("0123456789", SubSeq(str, Len(str), Len(str)), 1) - 1)

\* line.match(...): the groups of the match, None when the line does not match;
\* the . of the last group matches any character but a line terminator
MatchReviewLine(line) ==
  LET type == IF StartsWith(line, "ISSUE|") THEN "ISSUE"
              ELSE IF StartsWith(line, "SUGGESTION|") THEN "SUGGESTION"
              ELSE ""
      p1 == Len(type) + 1
      p2 == IndexOf(line, "|", p1 + 1)
      p3 == IF p2 = 0 THEN 0 ELSE IndexOf(line, "|", p2 + 1)
  IN IF type = "" \/ p2 = 0 \/ p3 = 0 THEN None
     ELSE LET filePath == SubSeq(line, p1 + 1, p2 - 1)
              lineStr == SubSeq(line, p2 + 1, p3 - 1)
              description == SubSeq(line, p3 + 1, Len(line))
          IN IF Len(filePath) = 0 \/ ~IsDigits(lineStr)
                  \/ Len(description) = 0
                  \/ Contains(description, "\r") \/ Contains(description, "\n")
             THEN None
             ELSE Some([type |-> type, filePath |-> filePath,
                        lineStr |-> lineStr, description |-> description])

\* the finding made of a matched line
ReviewFinding(m) ==
  createFindingAt(IF m.type = "SUGGESTION" THEN "Best practice suggestion"
                  ELSE "Code smell detected",
                  IF m.type = "ISSUE" THEN "warning" ELSE "info",
                  [filePath |-> Trim(m.filePath), startLine |-> ParseInt(m.lineStr)],
                  Trim(m.description))

InitReview ==
  /\ AgentIdle /\ ToolsIdle /\ UtilitiesIdle("review")
  /\ \E lines \in ReviewResponses :
       review = [pc |-> "request", lines |-> lines, idx |-> 0,
                 findings |-> << >>, thrown |-> FALSE]

\* await provider.sendRequest(...): a rejection is caught by the empty catch
ReviewRequest ==
  /\ review.pc = "request"
  /\ \E ok \in BOOLEAN :
       review' = [review EXCEPT !.pc = IF ok THEN "lines" ELSE "returned",
                                !.idx = IF ok THEN 1 ELSE 0]
  /\ UNCHANGED <<agentVars, toolVars, conflicts, cleanup, analyzer, manager>>

\* one iteration of the for..of over the lines of the response
ReviewLine ==
  /\ review.pc = "lines"
  /\ review.idx <= Len(review.lines)
  /\ LET match == MatchReviewLine(review.lines[review.idx])
     IN review' = [review EXCEPT
                     !.idx = @ + 1,
                     !.findings = IF IsSome(match)
                                  THEN Append(@, ReviewFinding(Get(match)))
                                  ELSE @]
  /\ UNCHANGED <<agentVars, toolVars, conflicts, cleanup, analyzer, manager>>

\* return findings
ReviewReturn ==
  /\ review.pc = "lines"
  /\ review.idx > Len(review.lines)
  /\ review' = [review EXCEPT !.pc = "returned"]
  /\ UNCHANGED <<agentVars, toolVars, conflicts, cleanup, analyzer, manager>>

NextReview == ReviewRequest \/ ReviewLine \/ ReviewReturn
SpecReview == InitReview /\ [][NextReview]_vars

(***************************************************************************)
(* createCleanupHandler (hygiene.cleanup): one call of the handler.        *)
(* cleanup.dryRun and cleanup.files are the fields of params, None when    *)
(* the caller left them out; cleanup.deleteCalls lists the paths handed    *)
(* to workspaceProvider.deleteFile.                                        *)
(***************************************************************************)
CleanupParams ==
  { [dryRun |-> d, files |-> f] :
      d \in {None, Some(TRUE), Some(FALSE)},
      f \in {None} \cup { Some(l) : l \in UNION { [1..n -> { "a.log", "b.tmp" }] :
                                                   n \in 0..MaxCleanupFiles } } }

\* const { dryRun = false, files } = params
DryRunOf(c) == IF IsSome(c.dryRun) THEN Get(c.dryRun) ELSE FALSE

\* failure({code, ...}) and success({dryRun, files, deleted, failed})
failure(code) ==
  [kind |-> "err", code |-> code, dryRun |-> FALSE, files |-> << >>,
   deleted |-> << >>, failed |-> << >>]
success(dryRun, files, deleted, failed) ==
  [kind |-> "ok", code |-> "", dryRun |-> dryRun, files |-> files,
   deleted |-> deleted, failed |-> failed]

InitCleanup ==
  /\ AgentIdle /\ ToolsIdle /\ UtilitiesIdle("cleanup")
  /\ \E params \in CleanupParams :
       cleanup = [pc |-> "start", dryRun |-> params.dryRun, files |-> params.files,
                  idx |-> 0, deleted |-> << >>, failed |-> << >>,
                  result |-> None, deleteCalls |-> << >>]

\* a handler that goes on to delete in dry-run mode
CleanupValidate_IgnoresDryRun ==
  /\ cleanup.pc = "start"
  /\ cleanup' =
       IF ~IsSome(cleanup.files) \/ Len(Get(cleanup.files)) = 0
       THEN [cleanup EXCEPT !.pc = "returned",
                            !.result = Some(failure("HYGIENE_CLEANUP_NO_FILES"))]
       ELSE [cleanup EXCEPT !.pc = "delete", !.idx = 1]
  /\ UNCHANGED <<agentVars, toolVars, review, conflicts, analyzer, manager>>

\* the checks before the loop: the file list, then the dry run
CleanupValidate ==
  /\ cleanup.pc = "start"
  /\ cleanup' =
       IF ~IsSome(cleanup.files) \/ Len(Get(cleanup.files)) = 0
       THEN [cleanup EXCEPT !.pc = "returned",
                            !.result = Some(failure("HYGIENE_CLEANUP_NO_FILES"))]
       ELSE IF DryRunOf(cleanup)
       THEN [cleanup EXCEPT !.pc = "returned",
                            !.result = Some(success(TRUE, Get(cleanup.files),
                                                    << >>, << >>))]
       ELSE [cleanup EXCEPT !.pc = "delete", !.idx = 1]
  /\ UNCHANGED <<agentVars, toolVars, review, conflicts, analyzer, manager>>

\* one iteration of the for..of: deleteFile answers ok or err, or rejects
CleanupDeleteFile ==
  /\ cleanup.pc = "delete"
  /\ cleanup.idx <= Len(Get(cleanup.files))
  /\ LET filePath == Get(cleanup.files)[cleanup.idx]
         called == [cleanup EXCEPT !.deleteCalls = Append(@, filePath)]
     IN \E outcome \in {"ok", "err", "rejects"} :
          cleanup' =
            CASE outcome = "ok" ->
                   [called EXCEPT !.deleted = Append(@, filePath), !.idx = @ + 1]
              [] outcome = "err" ->
                   [called EXCEPT !.failed = Append(@, filePath), !.idx = @ + 1]
              [] outcome = "rejects" ->
                   [called EXCEPT !.pc = "returned",
                                  !.result = Some(failure("HYGIENE_CLEANUP_ERROR"))]
  /\ UNCHANGED <<agentVars, toolVars, review, conflicts, analyzer, manager>>

\* return success({ dryRun: false, files, deleted, failed })
CleanupComplete ==
  /\ cleanup.pc = "delete"
  /\ cleanup.idx > Len(Get(cleanup.files))
  /\ cleanup' = [cleanup EXCEPT
                   !.pc = "returned",
                   !.result = Some(success(FALSE, Get(cleanup.files),
                                           cleanup.deleted, cleanup.failed))]
  /\ UNCHANGED <<agentVars, toolVars, review, conflicts, analyzer, manager>>

NextCleanup == CleanupValidate \/ CleanupDeleteFile \/ CleanupComplete
SpecCleanup == InitCleanup /\ [][NextCleanup]_vars

(***************************************************************************)
(* HygieneAnalyzer (hygiene/analytics-service.ts): analyze and clearCache. *)
(* analyzer.cache is the Map keyed by workspaceRoot, analyzer.now is       *)
(* Date.now(), analyzer.walks counts the walkDir passes (a report is named *)
(* by the pass that built it), analyzer.calls lists the calls made.        *)
(***************************************************************************)
cacheTTLMs == 10 * 60 * 1000
TickMs == 5 * 60 * 1000

\* JSON.stringify(config)
pruneConfigKey(cfg) ==
  "{\"minAgeDays\":" \o NatToString(cfg.minAgeDays)
    \o ",\"maxSizeMB\":" \o NatToString(cfg.maxSizeMB) \o "}"

\* this.cache.get(workspaceRoot); at most one entry per root
CachedFor(root) == { e \in analyzer.cache : e.root = root }
CacheHit(root, cfg) ==
  \E e \in CachedFor(root) :
    /\ e.configKey = pruneConfigKey(cfg)
    /\ analyzer.now - e.cachedAt < cacheTTLMs

InitAnalyzer ==
  /\ AgentIdle /\ ToolsIdle /\ UtilitiesIdle("analyzer")
  /\ analyzer = [cache |-> {}, now |-> 0, walks |-> 0, calls |-> << >>]

\* analyze(workspaceRoot, config): the cached report, or a walk whose report
\* replaces the entry of the root
Analyze ==
  /\ Len(analyzer.calls) < MaxAnalyzerCalls
  /\ \E root \in { "/ws", "/other" },
        cfg \in { [minAgeDays |-> 30, maxSizeMB |-> 1],
                  [minAgeDays |-> 7, maxSizeMB |-> 1] } :
       IF CacheHit(root, cfg)
       THEN LET e == CHOOSE x \in CachedFor(root) : TRUE
            IN analyzer' = [analyzer EXCEPT
                 !.calls = Append(@, [op |-> "analyze", root |-> root, config |-> cfg,
                                      at |-> analyzer.now, walked |-> FALSE,
                                      report |-> e.report])]
       ELSE analyzer' = [analyzer EXCEPT
              !.walks = @ + 1,
              !.cache = (@ \ CachedFor(root))
                          \cup { [root |-> root, report |-> analyzer.walks + 1,
                                  cachedAt |-> analyzer.now,
                                  configKey |-> pruneConfigKey(cfg)] },
              !.calls = Append(@, [op |-> "analyze", root |-> root, config |-> cfg,
                                   at |-> analyzer.now, walked |-> TRUE,
                                   report |-> analyzer.walks + 1])]
  /\ UNCHANGED <<agentVars, toolVars, review, conflicts, cleanup, manager>>

\* clearCache()
ClearCache ==
  /\ Len(analyzer.calls) < MaxAnalyzerCalls
  /\ analyzer' = [analyzer EXCEPT
       !.cache = {},
       !.calls = Append(@, [op |-> "clearCache", root |-> "", 
                            config |-> [minAgeDays |-> 0, maxSizeMB |-> 0],
                            at |-> analyzer.now, walked |-> FALSE, report |-> 0])]
  /\ UNCHANGED <<agentVars, toolVars, review, conflicts, cleanup, manager>>

\* time passes between two calls
Tick ==
  /\ analyzer.now < MaxTicks * TickMs
  /\ analyzer' = [analyzer EXCEPT !.now = @ + TickMs]
  /\ UNCHANGED <<agentVars, toolVars, review, conflicts, cleanup, manager>>

NextAnalyzer == Analyze \/ ClearCache \/ Tick
SpecAnalyzer == InitAnalyzer /\ [][NextAnalyzer]_vars

(***************************************************************************)
(* ProviderManager (vscode/src/providers): initialize, refreshFromSettings *)
(* and dispose.  manager.providers is the Map in insertion order,          *)
(* manager.providerSource the aidev.providerSource setting,                *)
(* manager.available the providers whose isAvailable() answers true at the *)
(* moment, manager.refreshes the refreshFromSettings calls in the order    *)
(* they were started, each with its position and with what isAvailable     *)
(* answered to it.                                                         *)
(***************************************************************************)
ProviderIds == << "vscode-lm", "direct-api" >>

\* const providerId = source === 'direct' ? 'direct-api' : 'vscode-lm'
ProviderIdFor(source) == IF source = "direct" THEN "direct-api" ELSE "vscode-lm"

\* the entries of the Map the fallback loop visits after position k
NextCandidate(providers, providerId, k) ==
  LET later == { i \in (k + 1)..Len(providers) : providers[i] # providerId }
  IN IF later = {} THEN 0 ELSE CHOOSE i \in later : \A j \in later : i <= j

\* the synchronous head of refreshFromSettings in manager state m, up to its
\* first await
StartedRefresh(m) ==
  LET providerId == ProviderIdFor(m.providerSource)
      registered == \E i \in 1..Len(m.providers) : m.providers[i] = providerId
      first == NextCandidate(m.providers, providerId, 0)
  IN [source |-> m.providerSource,
      providerId |-> providerId,
      pc |-> IF registered THEN "primary"
             ELSE IF first # 0 THEN "fallback" ELSE "done",
      at |-> IF registered THEN 0 ELSE first,
      candidate |-> IF ~registered /\ first # 0 THEN m.providers[first] ELSE "",
      answers |-> { }]

InitManager ==
  /\ AgentIdle /\ ToolsIdle /\ UtilitiesIdle("manager")
  /\ \E source \in { "ide", "direct" }, avail \in SUBSET { "vscode-lm", "direct-api" } :
       manager = [pc |-> "constructed", providers |-> << >>, activeProvider |-> None,
                  providerSource |-> source, available |-> avail,
                  subscribed |-> FALSE, disposed |-> FALSE, refreshes |-> << >>]

\* initialize: register the providers, start the first refresh and await it
Initialize ==
  /\ manager.pc = "constructed"
  /\ LET registered == [manager EXCEPT !.providers = ProviderIds]
     IN manager' = [registered EXCEPT
                      !.pc = "initializing",
                      !.refreshes = << StartedRefresh(registered) >>]
  /\ UNCHANGED <<agentVars, toolVars, review, conflicts, cleanup, analyzer>>

\* initialize resumes after its await and subscribes to the settings changes
Subscribe ==
  /\ manager.pc = "initializing"
  /\ manager.refreshes[1].pc = "done"
  /\ manager' = [manager EXCEPT !.pc = "ready", !.subscribed = TRUE]
  /\ UNCHANGED <<agentVars, toolVars, review, conflicts, cleanup, analyzer>>

\* the user changes an aidev setting; the listener, if subscribed, starts a refresh
ChangeConfiguration ==
  /\ manager.pc \in {"initializing", "ready"}
  /\ Len(manager.refreshes) < MaxRefreshes
  /\ \E source \in { "ide", "direct" } :
       LET changed == [manager EXCEPT !.providerSource = source]
       IN manager' =
            IF manager.subscribed
            THEN [changed EXCEPT !.refreshes = Append(@, StartedRefresh(changed))]
            ELSE changed
  /\ UNCHANGED <<agentVars, toolVars, review, conflicts, cleanup, analyzer>>

\* a provider becomes available or stops being so
AvailabilityChanges ==
  /\ manager.pc \in {"initializing", "ready"}
  /\ \E avail \in SUBSET { "vscode-lm", "direct-api" } :
       /\ avail # manager.available
       /\ manager' = [manager EXCEPT !.available = avail]
  /\ UNCHANGED <<agentVars, toolVars, review, conflicts, cleanup, analyzer>>

\* refresh r after an isAvailable() answered no, or first entering the loop:
\* the for..of over the live Map goes on from position k
ContinueLoop(r, k) ==
  LET next == NextCandidate(manager.providers, r.providerId, k)
  IN IF next = 0 THEN [r EXCEPT !.pc = "done"]
     ELSE [r EXCEPT !.pc = "fallback", !.at = next,
                    !.candidate = manager.providers[next]]

\* await provider.isAvailable() of the configured provider resolves
PrimaryResolves ==
  /\ \E n \in 1..Len(manager.refreshes) :
       LET r == manager.refreshes[n]
           ok == r.providerId \in manager.available
           seen == [r EXCEPT !.answers = @ \cup { <<r.providerId, ok>> }]
       IN /\ r.pc = "primary"
          /\ manager' =
               IF ok
               THEN [manager EXCEPT !.activeProvider = Some(r.providerId),
                                    !.refreshes[n] = [seen EXCEPT !.pc = "done"]]
               ELSE [manager EXCEPT !.refreshes[n] = ContinueLoop(seen, 0)]
  /\ UNCHANGED <<agentVars, toolVars, review, conflicts, cleanup, analyzer>>

\* await p.isAvailable() of a fallback candidate resolves
FallbackResolves ==
  /\ \E n \in 1..Len(manager.refreshes) :
       LET r == manager.refreshes[n]
           ok == r.candidate \in manager.available
           seen == [r EXCEPT !.answers = @ \cup { <<r.candidate, ok>> }]
       IN /\ r.pc = "fallback"
          /\ manager' =
               IF ok
               THEN [manager EXCEPT !.activeProvider = Some(r.candidate),
                                    !.refreshes[n] = [seen EXCEPT !.pc = "done"]]
               ELSE [manager EXCEPT !.refreshes[n] = ContinueLoop(seen, r.at)]
  /\ UNCHANGED <<agentVars, toolVars, review, conflicts, cleanup, analyzer>>

\* dispose(): the providers are disposed and forgotten, the active one cleared
Dispose ==
  /\ manager.pc \in {"initializing", "ready"}
  /\ ~manager.disposed
  /\ manager' = [manager EXCEPT !.providers = << >>, !.activeProvider = None,
                                !.disposed = TRUE]
  /\ UNCHANGED <<agentVars, toolVars, review, conflicts, cleanup, analyzer>>

NextManager ==
  \/ Initialize
  \/ Subscribe
  \/ ChangeConfiguration
  \/ AvailabilityChanges
  \/ PrimaryResolves
  \/ FallbackResolves
  \/ Dispose
SpecManager == InitManager /\ [][NextManager]_vars

(***************************************************************************)
(* Vocabulary of the properties.                                           *)
(***************************************************************************)
ToolActionTypes == {"tool_call", "confirmation_required"}
TerminalTypes == {"response", "error"}

CountType(acts, t) == Cardinality({ i \in 1..Len(acts) : acts[i].type = t })
LastYielded == yielded[Len(yielded)]
Finished == pc \in {"terminal", "done"}
ProviderGaveFinal == \E i \in 1..Len(providerLog) : providerLog[i].kind = "final"

\* the names the registry routes
KnownNames == { TOOL_REGISTRY[i].chatCommand : i \in 1..Len(TOOL_REGISTRY) }

\* the messages this run has appended after the ones it started from
RunMessages ==
  IF pc = "start" THEN << >>
  ELSE SubSeq(messages, Len(history) + 3, Len(messages))

\* the messages after position RunBase are the ones this run appended
RunBase == Len(history) + 2

\* positions of the assistant messages of this run, and the slots <<p, j>> of
\* their tool calls: call j of the assistant message at p
AssistantAt ==
  { p \in (RunBase + 1)..Len(messages) : messages[p].role = "assistant" }
CallSlots ==
  UNION { { <<p, j>> : j \in 1..Len(messages[p].toolCalls) } : p \in AssistantAt }
CallAt(slot) == messages[slot[1]].toolCalls[slot[2]]
SlotUpTo(a, b) == a[1] < b[1] \/ (a[1] = b[1] /\ a[2] <= b[2])

\* the rank k of a known call among the known calls of the run: the k-th tool
\* action was yielded for it and the k-th resume of the host answered it
KnownSlots == { t \in CallSlots : CallAt(t).name \in KnownNames }
RankIn(known, slot) == Cardinality({ t \in known : SlotUpTo(t, slot) })

\* the tool actions yielded so far, in order
ToolActionsYielded == SelectSeq(yielded, LAMBDA a : a.type \in ToolActionTypes)

\* message m is the tool_result of the call of slot, the rank-th known call
\* of the run when its name is known; acts are the tool actions yielded
AnswersCall(m, call, rank, acts) ==
  /\ m.role = "tool_result"
  /\ IF call.name \notin KnownNames
     THEN m.toolCallId = call.id /\ StartsWith(m.content, "Unknown tool")
     ELSE /\ rank <= Len(hostLog) /\ rank <= Len(acts)
          /\ acts[rank].callId = call.id
          /\ IF IsSome(hostLog[rank])
             THEN /\ m.toolCallId = Get(hostLog[rank]).toolCallId
                  /\ m.content = Get(hostLog[rank]).content
             ELSE /\ m.toolCallId = call.id
                  /\ m.content = "Tool execution was skipped or denied by the user."

(***************************************************************************)
(* C4: the tool_result messages appended for a model response follow its   *)
(* assistant message in the order of its tool calls: the message at        *)
(* distance j is the result of call j (the unknown-tool result, the        *)
(* denial, or what the host passed when it was resumed for call j), and    *)
(* every tool_result of the run sits in such a position.                   *)
(***************************************************************************)
C4_ResultsInCallOrder ==
  LET known == KnownSlots
      acts == ToolActionsYielded
  IN /\ \A slot \in CallSlots :
          slot[1] + slot[2] <= Len(messages) =>
            AnswersCall(messages[slot[1] + slot[2]], CallAt(slot),
                        RankIn(known, slot), acts)
     /\ \A q \in (RunBase + 1)..Len(messages) :
          messages[q].role = "tool_result" =>
            \E p \in (RunBase + 1)..(q - 1) :
              /\ messages[p].role = "assistant"
              /\ q - p <= Len(messages[p].toolCalls)
              /\ \A r \in (p + 1)..q : messages[r].role = "tool_result"

C4_Witness ==
  /\ pc = "loopTop"
  /\ Len(RunMessages) = 3
  /\ RunMessages[1].toolCalls[1].name = "frobnicate"
  /\ RunMessages[1].toolCalls[2].name = "commit"
  /\ Contains(RunMessages[2].content, "Unknown tool")
  /\ RunMessages[3].content = "ok"

(***************************************************************************)
(* C5: at every model request each tool call of every assistant message    *)
(* this run recorded has exactly one tool_result after it: what the host   *)
(* passed, or the synthetic 'skipped or denied' result with the call's id  *)
(* when the host resumed with nothing (for an unregistered name, the       *)
(* unknown-tool result); a resume of the host, denial included, never      *)
(* ends the run.                                                           *)
(***************************************************************************)
C5_AtRequest ==
  pc = "awaitProvider" =>
    /\ Get(lastRequest).messages = messages
    /\ LET known == KnownSlots
           acts == ToolActionsYielded
       IN \A p \in AssistantAt :
            LET n == Len(messages[p].toolCalls)
            IN /\ p + n <= Len(messages)
               /\ \A j \in 1..n :
                    AnswersCall(messages[p + j], messages[p].toolCalls[j],
                                RankIn(known, <<p, j>>), acts)
               /\ p + n < Len(messages) => messages[p + n + 1].role = "assistant"

C5_EveryCallAnswered ==
  /\ []C5_AtRequest
  /\ [][ pc = "awaitHost" =>
           /\ pc' = "forTools"
           /\ yielded' = yielded
           /\ Len(messages') = Len(messages) + 1 ]_vars

C5_Witness ==
  /\ pc = "awaitProvider"
  /\ requestCount = 2
  /\ Len(hostLog) = 2
  /\ ~IsSome(hostLog[1]) /\ IsSome(hostLog[2])
  /\ Contains(RunMessages[2].content, "skipped or denied")
  /\ RunMessages[2].toolCallId = RunMessages[1].toolCalls[1].id

(***************************************************************************)
(* C6: a tool call whose name the registry does not know gets no tool_call *)
(* or confirmation_required action: the step that handles it yields        *)
(* nothing, appends a tool_result with the call's id whose content has     *)
(* "Unknown tool" and every available tool name, and goes on with the run; *)
(* the next model request carries that tool_result.                        *)
(***************************************************************************)
IsUnknownToolResult(m, call) ==
  /\ m.role = "tool_result"
  /\ m.toolCallId = call.id
  /\ Contains(m.content, "Unknown tool")
  /\ Contains(m.content, call.name)
  /\ \A i \in 1..Len(config.availableTools) :
       Contains(m.content, config.availableTools[i].name)

C6_UnknownSlotsAnswered ==
  /\ LET known == KnownSlots
         acts == ToolActionsYielded
     IN /\ Len(acts) <= Cardinality(known)
        /\ \A k \in 1..Len(acts) :
             \E t \in known : /\ RankIn(known, t) = k
                              /\ acts[k].callId = CallAt(t).id
                              /\ acts[k].args = CallAt(t).arguments
  /\ pc = "awaitProvider" =>
       \A t \in CallSlots : CallAt(t).name \notin KnownNames =>
         \E q \in 1..Len(Get(lastRequest).messages) :
           IsUnknownToolResult(Get(lastRequest).messages[q], CallAt(t))

C6_UnknownToolRecovered ==
  /\ []C6_UnknownSlotsAnswered
  /\ [][ (pc = "forTools" /\ callIdx <= Len(Get(response.toolCalls))
            /\ Get(response.toolCalls)[callIdx].name \notin KnownNames) =>
           /\ yielded' = yielded
           /\ pc' = "forTools"
           /\ Len(messages') = Len(messages) + 1
           /\ SubSeq(messages', 1, Len(messages)) = messages
           /\ IsUnknownToolResult(messages'[Len(messages')],
                                  Get(response.toolCalls)[callIdx]) ]_vars

C6_Witness ==
  /\ pc = "awaitProvider"
  /\ requestCount = 2
  /\ Len(yielded) = 0
  /\ Len(config.availableTools) = 2
  /\ \E q \in 1..Len(Get(lastRequest).messages) :
       /\ Get(lastRequest).messages[q].role = "tool_result"
       /\ Get(lastRequest).messages[q].content
            = "Unknown tool: \"frobnicate\". Available tools: lint, commit"

(***************************************************************************)
(* C1: every run yields zero or more tool_call / confirmation_required     *)
(* actions and then exactly one terminal action (response or error); once  *)
(* the terminal action is out the generator is done and yields nothing     *)
(* more; no run ends without its terminal action.                          *)
(***************************************************************************)
C1_OneTerminalActionLast ==
  /\ \A i \in 1..(Len(yielded) - 1) : yielded[i].type \in ToolActionTypes
  /\ Finished <=> (Len(yielded) > 0 /\ LastYielded.type \in TerminalTypes)
  /\ pc = "done" => ~ENABLED Next
  /\ ~escaped

C1_Witness ==
  /\ pc = "done"
  /\ Len(yielded) = 3
  /\ yielded[1].type = "tool_call"
  /\ yielded[2].type = "confirmation_required"
  /\ yielded[3].type = "response"

(***************************************************************************)
(* C2: with maxTurns = N, as long as the provider has returned no response *)
(* without tool calls, at most N model requests have been issued and no    *)
(* response action has been yielded; such a run ends with exactly one      *)
(* error action.                                                           *)
(***************************************************************************)
C2_TurnLimit ==
  ~ProviderGaveFinal =>
    /\ requestCount <= config.maxTurns
    /\ CountType(yielded, "response") = 0
    /\ Finished => CountType(yielded, "error") = 1

C2_Witness ==
  /\ pc = "done"
  /\ ~ProviderGaveFinal
  /\ config.maxTurns = 2
  /\ requestCount = 2
  /\ Len(providerLog) = 2 /\ providerLog[2].kind = "tools"
  /\ Contains(LastYielded.message, "reached maximum turns (2)")

(***************************************************************************)
(* C3: with maxTokenBudget = B, from a state in which the token totals sum *)
(* to at least B - 100 no model request is issued any more, and the next   *)
(* evaluation of the loop head yields a terminal error action.             *)
(***************************************************************************)
C3_BudgetStopsRequests ==
  [][ (totalInputTokens + totalOutputTokens >= config.maxTokenBudget - 100) =>
        /\ requestCount' = requestCount
        /\ pc = "loopTop" =>
             /\ pc' = "terminal"
             /\ Len(yielded') = Len(yielded) + 1
             /\ yielded'[Len(yielded')].type = "error" ]_vars

C3_Witness ==
  /\ pc = "terminal"
  /\ requestCount = 1
  /\ turnsRemaining = 1
  /\ totalInputTokens + totalOutputTokens >= config.maxTokenBudget - 100
  /\ LastYielded.type = "error"
  /\ Contains(LastYielded.message, "Token budget exhausted (180 / 150 tokens used)")

(***************************************************************************)
(* C7: every tool_result message of the sequence has a toolCallId equal to *)
(* the id of a tool call carried by an earlier assistant message, whatever *)
(* ToolResult the host passes when it resumes the loop.                    *)
(***************************************************************************)
C7_ResultIdsMatchCalls ==
  \A q \in 1..Len(messages) :
    messages[q].role = "tool_result" =>
      \E p \in 1..(q - 1) :
        /\ messages[p].role = "assistant"
        /\ "toolCalls" \in DOMAIN messages[p]
        /\ \E j \in 1..Len(messages[p].toolCalls) :
             messages[p].toolCalls[j].id = messages[q].toolCallId

(***************************************************************************)
(* C8: when provider.sendRequest throws or rejects, at whatever turn, the  *)
(* loop yields exactly one terminal error action (the request failure) and *)
(* the run ends there; no exception propagates out of the generator.       *)
(***************************************************************************)
C8_ProviderFailureCaught ==
  /\ ~escaped
  /\ \A i \in 1..Len(providerLog) :
       providerLog[i].kind = "throw" =>
         /\ i = Len(providerLog)
         /\ Finished
         /\ LastYielded.type = "error"
         /\ StartsWith(LastYielded.message, "Model request failed: ")
         /\ CountType(yielded, "error") = 1
         /\ CountType(yielded, "response") = 0

C8_Witness ==
  /\ pc = "done"
  /\ Len(providerLog) = 2
  /\ providerLog[1].kind = "tools"
  /\ providerLog[2].kind = "throw"
  /\ LastYielded.type = "error"
  /\ LastYielded.message = "Model request failed: network down"

(***************************************************************************)
(* C9: cancellation is honoured by the loop: once the host has raised its  *)
(* abort signal no further model request is issued.                        *)
(***************************************************************************)
C9_NoRequestAfterAbort ==
  [][ aborted => requestCount' = requestCount ]_vars

(***************************************************************************)
(* C10: for every tool call whose name the registry resolves, the action   *)
(* yielded is tool_call exactly when the entry's invocation mode is        *)
(* autonomous and confirmation_required otherwise, whatever the arguments, *)
(* the turn and the token totals; its callId and args are the call's id    *)
(* and arguments, and every such call gets its action.                     *)
(***************************************************************************)
EntryNamed(name) ==
  TOOL_REGISTRY[CHOOSE i \in 1..Len(TOOL_REGISTRY) : TOOL_REGISTRY[i].chatCommand = name]

\* the known calls the for..of loop has reached so far
ReachedAmong(known) ==
  { t \in known :
      \/ pc \notin {"forTools", "awaitHost"}
      \/ \E q \in (t[1] + 1)..Len(messages) : messages[q].role = "assistant"
      \/ t[2] < callIdx
      \/ (t[2] = callIdx /\ pc = "awaitHost") }

C10_ActionFollowsInvocationMode ==
  LET known == KnownSlots
      reached == ReachedAmong(known)
      acts == ToolActionsYielded
  IN /\ Len(acts) = Cardinality(reached)
     /\ \A t \in reached :
          LET a == acts[RankIn(known, t)]
              e == EntryNamed(CallAt(t).name)
          IN /\ a.type = "tool_call" <=> e.invocation = "autonomous"
             /\ a.type = "confirmation_required" <=> e.invocation # "autonomous"
             /\ a.toolId = e.id
             /\ a.callId = CallAt(t).id
             /\ a.args = CallAt(t).arguments

C10_Witness ==
  /\ requestCount = 2
  /\ totalInputTokens > 0
  /\ Len(yielded) = 2
  /\ yielded[1].type = "tool_call" /\ yielded[1].args = "{\"p\":2}" /\ yielded[1].callId = "c2"
  /\ yielded[2].type = "confirmation_required" /\ yielded[2].toolId = "commit"
  /\ yielded[2].callId = "c1" /\ yielded[2].args = EmptyArgs

(***************************************************************************)
(* C11: within one run at most one suspension is outstanding: at most one  *)
(* model request is in flight, at most one yielded action awaits its       *)
(* resume, never both; and while a yielded action awaits its resume the    *)
(* loop issues no request and appends no message other than the one the    *)
(* resume itself brings.                                                   *)
(***************************************************************************)
RequestsInFlight == requestCount - Len(providerLog)
ActionsAwaitingResume == Len(ToolActionsYielded) - Len(hostLog)

C11_OneSuspensionInv ==
  /\ RequestsInFlight \in {0, 1}
  /\ ActionsAwaitingResume \in {0, 1}
  /\ RequestsInFlight + ActionsAwaitingResume <= 1
  /\ RequestsInFlight = 1 <=> pc = "awaitProvider"
  /\ ActionsAwaitingResume = 1 <=> pc = "awaitHost"

C11_OneSuspension ==
  /\ []C11_OneSuspensionInv
  /\ [][ (ActionsAwaitingResume = 1 \/ pc = "terminal") =>
           /\ requestCount' = requestCount
           /\ messages' # messages => Len(hostLog') = Len(hostLog) + 1 ]_vars

C11_Witness ==
  /\ pc = "awaitHost"
  /\ requestCount = 2
  /\ Len(hostLog) = 1
  /\ Len(ToolActionsYielded) = 2

UsageOf(entry) ==
  IF IsSome(entry.usage)
  THEN Get(entry.usage).inputTokens + Get(entry.usage).outputTokens
  ELSE 0

RECURSIVE SumInput(_)
SumInput(log) ==
  IF Len(log) = 0 THEN 0
  ELSE (IF IsSome(log[1].usage) THEN Get(log[1].usage).inputTokens ELSE 0)
       + SumInput(Tail(log))
RECURSIVE SumOutput(_)
SumOutput(log) ==
  IF Len(log) = 0 THEN 0
  ELSE (IF IsSome(log[1].usage) THEN Get(log[1].usage).outputTokens ELSE 0)
       + SumOutput(Tail(log))

C13_ResponseUsageIsSum ==
  /\ \A i \in 1..Len(yielded) :
       yielded[i].type = "response" =>
         /\ yielded[i].usage.totalInputTokens = SumInput(providerLog)
         /\ yielded[i].usage.totalOutputTokens = SumOutput(providerLog)
  /\ (Len(providerLog) = 1 /\ providerLog[1].kind = "final"
        /\ ~IsSome(providerLog[1].usage)) =>
       yielded = << [type |-> "response", content |-> "All good.",
                     usage |-> [totalInputTokens |-> 0, totalOutputTokens |-> 0]] >>

C13_Witness ==
  /\ pc = "done"
  /\ Len(providerLog) = 2
  /\ IsSome(providerLog[1].usage) /\ ~IsSome(providerLog[2].usage)
  /\ LastYielded.type = "response"
  /\ LastYielded.usage = [totalInputTokens |-> 120, totalOutputTokens |-> 60]

(***************************************************************************)
(* C14: turnsRemaining is maxTurns less the number of tool-bearing         *)
(* responses whose calls have all been handled, whatever the number and    *)
(* kind of their calls; a run that ends with a response action after k     *)
(* tool-bearing responses has issued exactly k + 1 model requests.         *)
(***************************************************************************)
ToolResponsesSeen ==
  Cardinality({ i \in 1..Len(providerLog) : providerLog[i].kind = "tools" })

C14_OneTurnPerToolResponse ==
  /\ pc \in {"loopTop", "awaitProvider", "terminal", "done"} =>
       turnsRemaining = config.maxTurns - ToolResponsesSeen
  /\ pc \in {"forTools", "awaitHost"} =>
       turnsRemaining = config.maxTurns - (ToolResponsesSeen - 1)
  /\ (Len(yielded) > 0 /\ LastYielded.type = "response") =>
       requestCount = ToolResponsesSeen + 1

C14_Witness ==
  /\ pc = "done"
  /\ LastYielded.type = "response"
  /\ Len(providerLog) = 2 /\ providerLog[1].calls = 2
  /\ Len(hostLog) = 1 /\ ~IsSome(hostLog[1])
  /\ config.maxTurns = 2 /\ turnsRemaining = 1
  /\ requestCount = 2

(***************************************************************************)
(* C15: when the model emits a tool call whose arguments fail JSON parsing *)
(* in the provider, the run is not aborted and the malformed arguments are *)
(* surfaced to the model: the tool_result appended for that call tells of  *)
(* the arguments.                                                          *)
(***************************************************************************)
\* the wire tool call behind call j of the assistant message at p
ToolsLog == SelectSeq(providerLog, LAMBDA e : e.kind = "tools")
WireAt(slot) ==
  ToolsLog[Cardinality({ q \in AssistantAt : q <= slot[1] })].wire[slot[2]]
MalformedSlots ==
  { t \in CallSlots : ~IsObjectText(WireAt(t).function.arguments) }
IsAnswered(slot) == slot[1] + slot[2] <= Len(messages)
EndedByLimit ==
  /\ LastYielded.type = "error"
  /\ \/ StartsWith(LastYielded.message, "Token budget exhausted")
     \/ StartsWith(LastYielded.message, "Agent loop reached maximum turns")

C15_MalformedArgumentsSurfaced ==
  \A t \in MalformedSlots :
    IsAnswered(t) =>
      LET m == messages[t[1] + t[2]]
      IN /\ m.role = "tool_result"
         /\ \/ Contains(m.content, "arguments")
            \/ Contains(m.content, WireAt(t).function.arguments)

(***************************************************************************)
(* C15 as amended: a tool call whose arguments fail JSON parsing in the    *)
(* provider reaches the loop with empty arguments and is handled as any    *)
(* other call: the assistant message records it with arguments {}, the     *)
(* action yielded for a registered name carries args {}, its tool_result   *)
(* is what the host passed or the denial, and the run goes on (it ends     *)
(* with an error only by the turn or the token limit).                     *)
(***************************************************************************)
C15_MalformedArgumentsBecomeEmpty ==
  LET known == KnownSlots
      acts == ToolActionsYielded
  IN \A t \in MalformedSlots :
       /\ CallAt(t).arguments = EmptyArgs
       /\ (t \in known /\ RankIn(known, t) <= Len(acts)) =>
            /\ acts[RankIn(known, t)].callId = CallAt(t).id
            /\ acts[RankIn(known, t)].args = EmptyArgs
       /\ IsAnswered(t) =>
            AnswersCall(messages[t[1] + t[2]], CallAt(t), RankIn(known, t), acts)
       /\ (pc \in {"terminal", "done"} /\ LastYielded.type = "error"
             /\ providerLog[Len(providerLog)].kind = "tools") => EndedByLimit

C15_Witness ==
  /\ pc = "awaitProvider"
  /\ requestCount = 2
  /\ Len(providerLog) = 1
  /\ providerLog[1].wire = << [id |-> "c1", function |-> [name |-> "commit",
                                                            arguments |-> "{\"p\":"]] >>
  /\ yielded = << [type |-> "confirmation_required", toolId |-> "commit",
                   args |-> EmptyArgs, callId |-> "c1",
                   description |-> yielded[1].description] >>
  /\ IsSome(hostLog[1])
  /\ messages[Len(messages)].content = "ok"

(***************************************************************************)
(* Vocabulary of the properties of the tools.                              *)
(***************************************************************************)
TerminalStatuses == {"completed", "failed", "cancelled"}
RunEnded == run.pc \in {"returned", "threw", "done"}
\* the entries this step added to opLog
NewOps == { k \in (Len(opLog) + 1)..Len(opLog') : TRUE }
\* this step attempted an operation that failed (a cancellation check aside)
OpFailed(ops) ==
  \E k \in NewOps : ~opLog'[k].ok /\ opLog'[k].op \in ops
AllOps ==
  {"getRepoRoot", "getCurrentBranch", "listPotentialPullRequests", "stashChanges",
   "checkoutRemoteBranch", "execGit", "sendRequest", "checkout original", "popStash",
   "getChangedFiles", "autoStage", "getStagedDiff", "checkHooks", "readFile", "eslint"}
LastOp == opLog[Len(opLog)]

(***************************************************************************)
(* C16: PR review with restoreOriginal: when a step fails from the         *)
(* checkout of the PR branch on (checkout, diff/log, model request,        *)
(* cancellation seen at a later phase), run attempts to check out the      *)
(* original branch, and to pop the stash it made once that checkout        *)
(* succeeded, before it returns.                                           *)
(***************************************************************************)
C16_FailureRestoresBranch ==
  (tool = "pr-review" /\ options.restoreOriginal /\ RunEnded) =>
    \A i \in 1..Len(opLog) :
      (~opLog[i].ok /\ opLog[i].at \in {"pr4", "pr5", "pr6", "pr7", "pr8"}
         /\ opLog[i].op # "popStash") =>
        \E j \in (i + 1)..Len(opLog) :
          /\ opLog[j].op = "checkout original"
          /\ (opLog[j].ok /\ IsSome(run.stashRef)) =>
               \E k \in (j + 1)..Len(opLog) : opLog[k].op = "popStash"

C17_FailureHandling ==
  CASE OpFailed({"getRepoRoot"}) ->
         run'.pc = "threw" /\ run'.findings = run.findings
    [] tool = "commit" ->
         run'.pc = "threw" /\ run'.findings = run.findings
    [] tool = "comments" ->
         run'.pc # "threw" /\ run'.findings = Append(run.findings, ErrorAnalyzing)
    [] tool \in {"lint", "dead-code"} ->
         run'.pc # "threw" /\ run'.findings = run.findings
    [] tool = "pr-review" /\ run.pc = "pr6" ->
         /\ run'.pc = "returned"
         /\ run'.findings = Append(run.findings, createErrorFinding("PR review generation"))
    [] tool = "pr-review" /\ run.pc = "prCatch" ->
         /\ run'.pc = "returned"
         /\ run'.findings = Append(run.findings, createErrorFinding("PR review"))
    [] tool = "pr-review" /\ run.pc = "pr8" /\ OpFailed({"popStash"}) ->
         /\ run'.pc = "returned"
         /\ run'.findings = Append(run.findings,
                                   createFinding("Stash restore warning", "warning"))
    [] OTHER ->
         run'.pc = "prCatch" /\ run'.findings = run.findings

C18_ModelFailureSilent ==
  [][ (tool \in {"lint", "dead-code", "comments"} /\ OpFailed({"sendRequest"})) =>
        run'.findings = run.findings ]_vars

(***************************************************************************)
(* C18 as amended: a failed model request of phase 2 leaves the findings   *)
(* of the lint and of the dead-code tool as they were; the comments tool   *)
(* keeps the findings it had and adds the warning "Error analyzing" for    *)
(* the file; in all three run goes on without throwing.                    *)
(***************************************************************************)
C18_ModelFailureKeepsStaticFindings ==
  [][ (tool \in {"lint", "dead-code", "comments"} /\ OpFailed({"sendRequest"})) =>
        /\ run'.pc # "threw"
        /\ run'.findings = IF tool = "comments"
                           THEN Append(run.findings, ErrorAnalyzing)
                           ELSE run.findings ]_vars

C18_Witness ==
  /\ tool = "lint"
  /\ scan.status = "completed"
  /\ LastOp.op = "sendRequest" /\ ~LastOp.ok
  /\ scan.findings = << createFinding("ESLint: no-unused-vars", "warning") >>

(***************************************************************************)
(* C19: a scan's status moves pending -> running -> one of completed,      *)
(* failed, cancelled and no other way; once the status is terminal the     *)
(* ScanResult (status, findings, error) never changes, whatever is read    *)
(* or cancelled afterwards.                                                *)
(***************************************************************************)
C19_StatusLifecycle ==
  /\ [](scan.status \in {"pending", "running"} \cup TerminalStatuses)
  /\ [][ /\ scan.status' # scan.status =>
              \/ scan.status = "pending" /\ scan.status' = "running"
              \/ scan.status = "running" /\ scan.status' \in TerminalStatuses
         /\ scan.status \in TerminalStatuses => scan' = scan ]_vars

C19_Witness ==
  /\ scan.status = "completed"
  /\ options.signalAborted
  /\ Len(scan.findings) = 2
  /\ reads = MaxReads

(***************************************************************************)
(* C20: when a tool has seen the abort signal at a phase boundary, the     *)
(* scan ends with status cancelled, not completed and not failed.          *)
(***************************************************************************)
C20_AbortEndsCancelled ==
  (scan.status \in TerminalStatuses
     /\ \E i \in 1..Len(opLog) : opLog[i].op = "throwIfCancelled") =>
    scan.status = "cancelled"

(***************************************************************************)
(* C26: the limits are checked at the head of an iteration only: when a    *)
(* run ends with the budget or the turn-limit error after a tool-bearing   *)
(* response, every call of that response has its tool_result recorded,     *)
(* every registry-known call of the run was yielded and resumed before     *)
(* the error, and the last request the model got predates that batch.      *)
(***************************************************************************)
C26_BatchFinishedBeforeLimit ==
  (pc \in {"terminal", "done"} /\ Len(yielded) > 0 /\ EndedByLimit
     /\ Len(providerLog) > 0 /\ providerLog[Len(providerLog)].kind = "tools") =>
    LET n == providerLog[Len(providerLog)].calls
        p == Len(messages) - n
    IN /\ p > RunBase
       /\ messages[p].role = "assistant"
       /\ Len(messages[p].toolCalls) = n
       /\ \A j \in 1..n : messages[p + j].role = "tool_result"
       /\ Len(ToolActionsYielded) = Cardinality(KnownSlots)
       /\ Len(hostLog) = Len(ToolActionsYielded)
       /\ Len(Get(lastRequest).messages) < p

C26_Witness ==
  /\ pc = "done"
  /\ config.maxTokenBudget = 150 /\ config.maxTurns = 2
  /\ Len(providerLog) = 1 /\ providerLog[1].calls = 2
  /\ totalInputTokens + totalOutputTokens = 180
  /\ Len(yielded) = 3
  /\ yielded[1].type = "tool_call" /\ yielded[2].type = "tool_call"
  /\ StartsWith(yielded[3].message, "Token budget exhausted")
  /\ Len(hostLog) = 2

(***************************************************************************)
(* C27: a failed provider request commits nothing of its turn: at the step *)
(* where sendRequest fails the message sequence is the one that request    *)
(* carried and stays as it is, the token totals stay as they are, and the  *)
(* only action yielded is the terminal error.                              *)
(***************************************************************************)
C27_FailedRequestCommitsNothing ==
  [][ (Len(providerLog') = Len(providerLog) + 1
         /\ providerLog'[Len(providerLog')].kind = "throw") =>
        /\ messages = Get(lastRequest).messages
        /\ messages' = messages
        /\ totalInputTokens' = totalInputTokens
        /\ totalOutputTokens' = totalOutputTokens
        /\ Len(yielded') = Len(yielded) + 1
        /\ yielded'[Len(yielded')].type = "error"
        /\ Len(hostLog) = Len(ToolActionsYielded) ]_vars

C27_Witness ==
  /\ pc = "terminal"
  /\ Len(providerLog) = 2
  /\ providerLog[1].kind = "tools" /\ IsSome(providerLog[1].usage)
  /\ providerLog[2].kind = "throw"
  /\ totalInputTokens = 120 /\ totalOutputTokens = 60
  /\ messages = Get(lastRequest).messages
  /\ Len(yielded) = 2 /\ yielded[2].type = "error"

(***************************************************************************)
(* C28: once the body has started, the message sequence begins with the    *)
(* system prompt, the caller's history in order and the new user message,  *)
(* and every step leaves the earlier messages in place and only appends;   *)
(* the caller's history list is never changed.                             *)
(***************************************************************************)
C28_MessagesAppendOnly ==
  /\ [](pc # "start" =>
          /\ Len(messages) >= Len(history) + 2
          /\ messages[1] = [role |-> "system", content |-> buildSystemPrompt(config)]
          /\ \A i \in 1..Len(history) : messages[1 + i] = history[i]
          /\ messages[Len(history) + 2] = [role |-> "user", content |-> UserMessage])
  /\ [][ /\ history' = history
         /\ pc # "start" =>
              /\ Len(messages') >= Len(messages)
              /\ SubSeq(messages', 1, Len(messages)) = messages ]_vars

C28_Witness ==
  /\ pc = "awaitProvider"
  /\ requestCount = 2
  /\ Len(history) = 4
  /\ messages[2] = history[1] /\ messages[5] = history[4]
  /\ messages[6] = [role |-> "user", content |-> UserMessage]
  /\ Len(messages) = RunBase + 3

\* positions of the log that hold the named git operation
OpsNamed(names) == { i \in 1..Len(opLog) : opLog[i].op \in names }

StashBeforeCheckout ==
  \A i \in OpsNamed({"stashChanges"}) :
    \A j \in OpsNamed({"checkoutRemoteBranch", "checkout original"}) : i < j

AtMostOnePop == Cardinality(OpsNamed({"popStash"})) <= 1

PopOnlyOfOwnStash ==
  \A i \in OpsNamed({"popStash"}) :
    /\ IsSome(run.stashRef)
    /\ \E j \in OpsNamed({"stashChanges"}) : j < i /\ opLog[j].ok

PopAfterCheckoutOriginal ==
  \A i \in OpsNamed({"popStash"}) :
    i > 1 /\ opLog[i - 1].op = "checkout original" /\ opLog[i - 1].ok

NoPopUnlessRestoring ==
  (~options.restoreOriginal
     \/ (IsSome(run.originalBranch) /\ Get(run.originalBranch) = PRBranch)) =>
    /\ OpsNamed({"popStash"}) = {}
    /\ IsSome(run.stashRef) => repo.stashes = 1

(***************************************************************************)
(* C29: in a PR review run the stash comes before any checkout, the stash  *)
(* is popped at most once, only when this run made a stash and only after  *)
(* a checkout of the original branch; with restoreOriginal false or the    *)
(* original branch being the PR branch no pop is attempted and the stash   *)
(* stays in place.                                                         *)
(***************************************************************************)
C29_StashOrderAndSinglePop ==
  tool = "pr-review" =>
    /\ StashBeforeCheckout
    /\ AtMostOnePop
    /\ PopOnlyOfOwnStash
    /\ PopAfterCheckoutOriginal
    /\ NoPopUnlessRestoring

MarkersBetween(lines, a, b, marker) ==
  { k \in (a + 1)..(b - 1) : StartsWith(lines[k], marker) }

\* h is the region of lines that opens at h.startLine and closes at h.endLine
IsConflictRegion(lines, h) ==
  /\ h.startLine \in 1..Len(lines)
  /\ h.endLine \in (h.startLine + 2)..Len(lines)
  /\ StartsWith(lines[h.startLine], MARKER_OURS)
  /\ StartsWith(lines[h.endLine], MARKER_THEIRS)
  /\ \E m \in MarkersBetween(lines, h.startLine, h.endLine, MARKER_SEPARATOR) :
       /\ MarkersBetween(lines, h.startLine, m, MARKER_SEPARATOR) = {}
       /\ MarkersBetween(lines, m, h.endLine, MARKER_THEIRS) = {}
       /\ h.ours = Join(SubSeq(lines, h.startLine + 1, m - 1), "\n")
       /\ h.theirs = Join(SubSeq(lines, m + 1, h.endLine - 1), "\n")

(***************************************************************************)
(* C23: the hunks parseConflictMarkers returns are conflict regions in     *)
(* file order: each starts at the line of its <<<<<<< marker, ends at the  *)
(* line of its >>>>>>> marker, carries the lines strictly between the      *)
(* markers, and no hunk comes from a <<<<<<< marker that lacks a complete  *)
(* ======= ... >>>>>>> pair.                                               *)
(***************************************************************************)
C23_HunksAreCompleteRegions ==
  conflicts.pc = "returned" =>
    /\ \A k \in 1..Len(conflicts.hunks) :
         IsConflictRegion(conflicts.lines, conflicts.hunks[k])
    /\ \A k \in 1..(Len(conflicts.hunks) - 1) :
         conflicts.hunks[k].endLine < conflicts.hunks[k + 1].startLine

\* the fields of a line, separated by |
RECURSIVE Fields(_)
Fields(line) ==
  LET p == IndexOf(line, "|", 1)
  IN IF p = 0 THEN << line >>
     ELSE << SubSeq(line, 1, p - 1) >> \o Fields(SubSeq(line, p + 1, Len(line)))

\* a record TYPE|file|line|description: a known type, a file, a decimal line
\* number and a description (which may hold | itself)
IsWellFormedRecord(line) ==
  LET f == Fields(line)
  IN /\ Len(f) >= 4
     /\ f[1] \in {"ISSUE", "SUGGESTION"}
     /\ Len(f[2]) > 0
     /\ IsDigits(f[3])
     /\ Len(Join(SubSeq(f, 4, Len(f)), "|")) > 0

WellFormedLines(lines) == { i \in 1..Len(lines) : IsWellFormedRecord(lines[i]) }

(***************************************************************************)
(* C22: reading a lint review response never throws, and when the response *)
(* was received the findings are one per well-formed ISSUE or SUGGESTION   *)
(* record, in the order of the lines; every other line is ignored.         *)
(***************************************************************************)
C22_OneFindingPerRecord ==
  /\ ~review.thrown
  /\ (review.pc = "returned" /\ review.idx > 0) =>
       /\ Len(review.findings) = Cardinality(WellFormedLines(review.lines))
       /\ \A k \in 1..Len(review.findings) :
            \E i \in WellFormedLines(review.lines) :
              /\ Cardinality({ j \in WellFormedLines(review.lines) : j <= i }) = k
              /\ review.findings[k].location.startLine =
                   ParseInt(Fields(review.lines[i])[3])

\* params.files is missing or empty
NoFilesGiven == ~IsSome(cleanup.files) \/ Len(Get(cleanup.files)) = 0

(***************************************************************************)
(* C24: the cleanup handler calls deleteFile only with a non-empty file    *)
(* list and dryRun false; without files it returns the failure             *)
(* HYGIENE_CLEANUP_NO_FILES, and in dry-run mode it returns success with   *)
(* the files listed, deleted = [] and failed = [], without any deleteFile  *)
(* call.                                                                   *)
(***************************************************************************)
C24_NoDeleteWithoutFilesOrInDryRun ==
  /\ cleanup.deleteCalls # << >> => (~NoFilesGiven /\ ~DryRunOf(cleanup))
  /\ (cleanup.pc = "returned" /\ NoFilesGiven) =>
       /\ Get(cleanup.result).kind = "err"
       /\ Get(cleanup.result).code = "HYGIENE_CLEANUP_NO_FILES"
  /\ (cleanup.pc = "returned" /\ ~NoFilesGiven /\ DryRunOf(cleanup)) =>
       Get(cleanup.result) = success(TRUE, Get(cleanup.files), << >>, << >>)

C24_Witness ==
  /\ cleanup.pc = "returned"
  /\ cleanup.dryRun = Some(TRUE)
  /\ cleanup.files = Some(<< "a.log", "b.tmp" >>)
  /\ Get(cleanup.result).kind = "ok"
  /\ Get(cleanup.result).files = << "a.log", "b.tmp" >>
  /\ Get(cleanup.result).deleted = << >>
  /\ cleanup.deleteCalls = << >>

\* the calls of analyze before call j for the root and the config of call j
EarlierSame(j) ==
  { i \in 1..(j - 1) :
      /\ analyzer.calls[i].op = "analyze"
      /\ analyzer.calls[i].root = analyzer.calls[j].root
      /\ analyzer.calls[i].config = analyzer.calls[j].config }

ClearedBetween(i, j) ==
  \E k \in (i + 1)..(j - 1) : analyzer.calls[k].op = "clearCache"

\* the walks of the root of call j before call j
EarlierWalks(j) ==
  { i \in 1..(j - 1) :
      /\ analyzer.calls[i].op = "analyze"
      /\ analyzer.calls[i].walked
      /\ analyzer.calls[i].root = analyzer.calls[j].root }

(***************************************************************************)
(* C25: a call analyze(root, config) made less than 10 minutes after an    *)
(* earlier analyze of the same root and config, with no clearCache in      *)
(* between, returns that report without walking the workspace; a call with *)
(* no walk of its root since the last clearCache, or none in the last 10   *)
(* minutes, walks.                                                         *)
(***************************************************************************)
C25_CachedPerRootAndConfig ==
  \A j \in 1..Len(analyzer.calls) :
    analyzer.calls[j].op = "analyze" =>
      /\ \A i \in EarlierSame(j) :
           (analyzer.calls[j].at - analyzer.calls[i].at < cacheTTLMs
              /\ ~ClearedBetween(i, j)) =>
             /\ ~analyzer.calls[j].walked
             /\ analyzer.calls[j].report = analyzer.calls[i].report
      /\ (\A i \in EarlierWalks(j) :
            ClearedBetween(i, j)
              \/ analyzer.calls[j].at - analyzer.calls[i].at >= cacheTTLMs) =>
           analyzer.calls[j].walked

\* every refreshFromSettings call started so far has completed
RefreshesCompleted ==
  /\ Len(manager.refreshes) > 0
  /\ \A n \in 1..Len(manager.refreshes) : manager.refreshes[n].pc = "done"

LatestRefresh == manager.refreshes[Len(manager.refreshes)]

\* what the latest refresh selected: its configured provider when that one
\* answered available, else the other one when it did, else nothing
SelectedByLatest ==
  LET r == LatestRefresh
      yes == { a[1] : a \in { x \in r.answers : x[2] } }
  IN IF r.providerId \in yes THEN Some(r.providerId)
     ELSE IF yes # {} THEN Some(CHOOSE id \in yes : TRUE)
     ELSE None

(***************************************************************************)
(* C30: once every refreshFromSettings call started has completed, the     *)
(* active provider is the one the latest refresh selected from the latest  *)
(* settings (its configured provider, or the available fallback), never a  *)
(* provider that answered unavailable in the latest refresh, and none      *)
(* after dispose.                                                          *)
(***************************************************************************)
C30_ActiveFollowsLatestSettings ==
  RefreshesCompleted =>
    IF manager.disposed
    THEN manager.activeProvider = None
    ELSE /\ LatestRefresh.source = manager.providerSource =>
              manager.activeProvider = SelectedByLatest
         /\ IsSome(manager.activeProvider) =>
              <<Get(manager.activeProvider), FALSE>> \notin LatestRefresh.answers

====
